---- MODULE Spec2Model ----
(***************************************************************************)
(* A model of the request path of the Smart Content Studio backend:        *)
(*   - the provider-fallback chain        services/ai_providers.py         *)
(*   - the streaming relay                services/streaming.py,           *)
(*                                        api/routes.py (sse_generator)    *)
(*   - the fixed-window rate limiter      utils/rate_limiter.py            *)
(*   - the input guard                    utils/security.py                *)
(*   - the quality-driven model router    model_router.py                  *)
(*   - the HTTP handlers                  api/routes.py                    *)
(* Text is a sequence of one-character strings, time is a count of ticks,  *)
(* an exception is a record, and a provider is an environment that may     *)
(* answer, fail, or (when streaming) yield chunks.                         *)
(***************************************************************************)
EXTENDS Integers, Sequences, FiniteSets, TLC

VARIABLES
    cfg,      \* config/settings.py: PRIMARY_AI_PROVIDER, ENABLE_AI_FALLBACK, keys
    chain,    \* one activation of call_ai_with_routing
    relay,    \* one activation of stream_ai_with_routing under sse_generator
    events,   \* the server-sent events sse_generator has yielded so far
    request_counts, \* utils/rate_limiter.py: client id -> [count, reset_time]
    now,      \* the clock datetime.now() reads, in ticks
    win,      \* history: per client, the calls of its current window
    last_check, \* history: the latest call of check_rate_limit and its answer
    req,      \* api/routes.py: the request in service and its response
    img,      \* services/image_service.py: the run of generate_image_asset
    imgkeys,  \* configuration: which image API keys are set
    rkeys,    \* model_router.py: which keys the ModelRouter has
    rt,       \* the calls of route_and_execute in progress
    usage_stats, \* ModelRouter.usage_stats: (model, task type) -> count
    guard,    \* utils/security.py: an input text and what the guard made of it
    tasks,    \* concurrent requests of the rate-limited handlers on the event loop
    burst,    \* history: the calls of one client admitted at each time
    choice    \* model_router.py: a call of select_best_model and what it returned

providerVars == <<cfg, chain, relay, events>>

limiterVars == <<request_counts, now, win, last_check>>

apiVars == <<req, img, imgkeys>>

routerVars == <<rkeys, rt, usage_stats>>

vars ==
    << cfg, chain, relay, events, request_counts, now, win, last_check, req, img, imgkeys,
       rkeys, rt, usage_stats, guard, tasks, burst, choice >>

(***************************************************************************)
(* Bounds of the model.                                                    *)
(***************************************************************************)
MaxChunks == 3

\* The clock stops at MaxTime; a minute has TicksPerMinute ticks.
MaxTime == 3

TicksPerMinute == 2

(***************************************************************************)
(* Exceptions (fastapi.HTTPException) and the values providers produce.    *)
(***************************************************************************)
HTTPException(status, detail) == [status_code |-> status, detail |-> detail]

NoError == HTTPException(0, "")

NoResult == "<none>"

\* What a text provider can answer with (the generated text).
ProviderTexts == {"Hello", "World"}

\* The chunks a streaming provider can yield (never empty: the provider
\* clients drop empty chunks).
Chunks == {"Hel", "lo"}

\* call_gemini_api / call_grok_api turn every failure into one of these two.
CallErrors ==
    { HTTPException(504, "AI service timeout"),
      HTTPException(500, "AI service unavailable") }

\* stream_gemini_api / stream_grok_api turn every failure into one of these.
StreamErrors ==
    { HTTPException(504, "AI streaming service timeout"),
      HTTPException(500, "AI streaming service unavailable") }

(***************************************************************************)
(* Configuration: read once at start-up, never changed.                    *)
(***************************************************************************)
Configs ==
    [ primary    : {"gemini", "grok", "other"},
      fallback   : BOOLEAN,
      gemini_key : BOOLEAN,
      grok_key   : BOOLEAN ]

(***************************************************************************)
(* The provider-fallback chain, call_ai_with_routing.                      *)
(***************************************************************************)
\* The ordered provider list of call_ai_with_routing.
ProviderList(c) ==
    IF c.primary = "grok" /\ c.grok_key
    THEN <<"grok">> \o (IF c.fallback /\ c.gemini_key THEN <<"gemini">> ELSE <<>>)
    ELSE (IF c.gemini_key THEN <<"gemini">> ELSE <<>>)
         \o (IF c.fallback /\ c.grok_key THEN <<"grok">> ELSE <<>>)

NoProvidersConfigured ==
    HTTPException(503, "No AI providers configured. Please set GEMINI_API_KEY or GROK_API_KEY.")

\* A provider call that has been issued, and how it ended: "pending" while it
\* is awaited, then "returned" with its text or "raised" with its error.
Invocation(p) ==
    [provider |-> p, outcome |-> "pending", text |-> NoResult, error |-> NoError]

ChainIdle ==
    [ pc |-> "idle", providers |-> <<>>, idx |-> 0, last_error |-> NoError,
      result |-> NoResult, error |-> NoError, calls |-> <<>> ]

\* call_ai_with_routing up to its first await: build the list, raise 503 when
\* it is empty, otherwise issue the call to the first provider.
call_ai_with_routing(c) ==
    LET providers == ProviderList(c) IN
    IF providers = <<>>
    THEN [ChainIdle EXCEPT !.pc = "raised", !.error = NoProvidersConfigured]
    ELSE [ChainIdle EXCEPT !.pc = "await", !.providers = providers, !.idx = 1,
                           !.calls = <<Invocation(providers[1])>>]

\* The awaited provider returned text: call_ai_with_routing returns it.
call_ai_on_result(st, text) ==
    [st EXCEPT !.pc = "returned", !.result = text,
               !.calls[Len(st.calls)].outcome = "returned",
               !.calls[Len(st.calls)].text = text]

RememberFirstError(last_error, e) == IF last_error = NoError THEN e ELSE last_error

\* The error call_ai_with_routing remembers when a provider raised e.
RememberError(last_error, e) == e

\* The awaited provider raised e: remember it, go on with the next provider of
\* the list, and when there is none raise the remembered error.
call_ai_on_exception(st, e) ==
    LET failed == [st EXCEPT !.last_error = RememberError(st.last_error, e),
                             !.calls[Len(st.calls)].outcome = "raised",
                             !.calls[Len(st.calls)].error = e]
    IN  IF st.idx < Len(st.providers)
        THEN [failed EXCEPT !.idx = st.idx + 1,
                            !.calls = Append(failed.calls,
                                             Invocation(st.providers[st.idx + 1]))]
        ELSE [failed EXCEPT !.pc = "raised",
                            !.error = IF failed.last_error # NoError
                                      THEN failed.last_error
                                      ELSE HTTPException(500, "All AI providers unavailable")]

(***************************************************************************)
(* The streaming relay: stream_ai_with_routing consumed by sse_generator.  *)
(***************************************************************************)
\* The ordered provider list of stream_ai_with_routing.
StreamProviderList(c) ==
    IF c.primary = "grok" /\ c.grok_key
    THEN <<"grok">> \o (IF c.fallback /\ c.gemini_key THEN <<"gemini">> ELSE <<>>)
    ELSE (IF c.gemini_key THEN <<"gemini">> ELSE <<>>)
         \o (IF c.fallback /\ c.grok_key THEN <<"grok">> ELSE <<>>)

\* The events of sse_generator (the JSON object of each "data:" line).
ChunkEvent(c) == [kind |-> "chunk", chunk |-> c, error |-> NoError]
DoneEvent == [kind |-> "done", chunk |-> "", error |-> NoError]
ErrorEvent(e) == [kind |-> "error", chunk |-> "", error |-> e]

\* sse_generator: one chunk of stream_ai_with_routing arrived.
SseOnChunk(evs, c) == Append(evs, ChunkEvent(c))

\* sse_generator: stream_ai_with_routing ended normally.
SseOnEnd(evs) == Append(evs, DoneEvent)

SseErrorThenDone(evs, e) == Append(Append(evs, ErrorEvent(e)), DoneEvent)

\* sse_generator: stream_ai_with_routing raised e.
SseOnException(evs, e) == Append(evs, ErrorEvent(e))

\* One attempt of a provider's stream: the chunks it yielded so far and how it
\* ended ("open" while it runs, then "completed" or "failed").
Attempt(p) == [provider |-> p, chunks |-> <<>>, end |-> "open"]

RelayIdle ==
    [ pc |-> "idle", providers |-> <<>>, idx |-> 0, last_error |-> NoError,
      attempts |-> <<>> ]

\* A generator that has been created and not yet iterated.
RelayReady == [RelayIdle EXCEPT !.pc = "ready"]

\* stream_ai_with_routing from its first iteration to the first await.
stream_ai_with_routing(c) ==
    LET providers == StreamProviderList(c) IN
    IF providers = <<>>
    THEN [RelayIdle EXCEPT !.pc = "raised", !.last_error = NoProvidersConfigured]
    ELSE [RelayIdle EXCEPT !.pc = "streaming", !.providers = providers, !.idx = 1,
                           !.attempts = <<Attempt(providers[1])>>]

\* The current provider yielded chunk c, which stream_ai_with_routing yields on.
stream_on_chunk(st, c) ==
    [st EXCEPT !.attempts[Len(st.attempts)].chunks = Append(@, c)]

\* The current provider's stream ended: stream_ai_with_routing returns.
stream_on_end(st) ==
    [st EXCEPT !.pc = "returned", !.attempts[Len(st.attempts)].end = "completed"]

\* The current provider's stream raised e: remember it and continue with the
\* next provider of the list; raise the last error when there is none.
stream_on_exception(st, e) ==
    LET failed == [st EXCEPT !.last_error = e,
                             !.attempts[Len(st.attempts)].end = "failed"]
    IN  IF st.idx < Len(st.providers)
        THEN [failed EXCEPT !.idx = st.idx + 1,
                            !.attempts = Append(failed.attempts,
                                                Attempt(st.providers[st.idx + 1]))]
        ELSE [failed EXCEPT !.pc = "raised"]

RECURSIVE ChunkCount(_)
ChunkCount(attempts) ==
    IF attempts = <<>> THEN 0
    ELSE Len(Head(attempts).chunks) + ChunkCount(Tail(attempts))

(***************************************************************************)
(* The input guard, utils/security.py.  A text is a sequence of            *)
(* characters; a character is a one-character string, or the name of a     *)
(* character that has no printable form.                                   *)
(***************************************************************************)
ZeroWidth == {"U+200B", "U+200C", "U+200D"}

\* The characters of the model for which str.isprintable() is false.
NonPrintable == {"\n", "\t", "\r", "U+0000", "U+00A0"} \cup ZeroWidth

\* The characters of the model for which str.isspace() is true.
Whitespace == {" ", "\n", "\t", "\r", "U+00A0"}

isprintable(ch) == ch \notin NonPrintable

isspace(ch) == ch \in Whitespace

\* The upper-case letters and their lower case.
LowerOf ==
    "A" :> "a" @@ "B" :> "b" @@ "C" :> "c" @@ "D" :> "d" @@ "E" :> "e" @@ "F" :> "f" @@
    "G" :> "g" @@ "H" :> "h" @@ "I" :> "i" @@ "J" :> "j" @@ "K" :> "k" @@ "L" :> "l" @@
    "M" :> "m" @@ "N" :> "n" @@ "O" :> "o" @@ "P" :> "p" @@ "Q" :> "q" @@ "R" :> "r" @@
    "S" :> "s" @@ "T" :> "t" @@ "U" :> "u" @@ "V" :> "v" @@ "W" :> "w" @@ "X" :> "x" @@
    "Y" :> "y" @@ "Z" :> "z"

\* str.lower()
lower(text) ==
    [i \in 1..Len(text) |->
        IF text[i] \in DOMAIN LowerOf THEN LowerOf[text[i]] ELSE text[i]]

\* A pattern is a sequence of atoms: one of a set of literal strings, a run
\* of whitespace (\s*), or a run of characters other than newline (.*?).
Lit(w) == [atom |-> "alt", alts |-> {w}]

Alt(ws) == [atom |-> "alt", alts |-> ws]

SpaceRun == [atom |-> "space", alts |-> {}]

AnyRun == [atom |-> "any", alts |-> {}]

\* SUSPICIOUS_PATTERNS, in lower case (the regex is compiled IGNORECASE and
\* is matched here against the lower-cased text).
SUSPICIOUS_PATTERNS ==
    <<
       \* ignore (previous|all|above|prior) (instructions|prompts|commands)
       <<Lit(<<"i", "g", "n", "o", "r", "e", " ">>),
         Alt({<<"p", "r", "e", "v", "i", "o", "u", "s">>, <<"a", "l", "l">>, <<"a", "b", "o", "v", "e">>, <<"p", "r", "i", "o", "r">>}),
         Lit(<<" ">>),
         Alt({<<"i", "n", "s", "t", "r", "u", "c", "t", "i", "o", "n", "s">>, <<"p", "r", "o", "m", "p", "t", "s">>, <<"c", "o", "m", "m", "a", "n", "d", "s">>})>>,
       \* disregard (previous|all|above|prior) (instructions|prompts|commands)
       <<Lit(<<"d", "i", "s", "r", "e", "g", "a", "r", "d", " ">>),
         Alt({<<"p", "r", "e", "v", "i", "o", "u", "s">>, <<"a", "l", "l">>, <<"a", "b", "o", "v", "e">>, <<"p", "r", "i", "o", "r">>}),
         Lit(<<" ">>),
         Alt({<<"i", "n", "s", "t", "r", "u", "c", "t", "i", "o", "n", "s">>, <<"p", "r", "o", "m", "p", "t", "s">>, <<"c", "o", "m", "m", "a", "n", "d", "s">>})>>,
       \* forget (previous|all|above|prior) (instructions|prompts|commands)
       <<Lit(<<"f", "o", "r", "g", "e", "t", " ">>),
         Alt({<<"p", "r", "e", "v", "i", "o", "u", "s">>, <<"a", "l", "l">>, <<"a", "b", "o", "v", "e">>, <<"p", "r", "i", "o", "r">>}),
         Lit(<<" ">>),
         Alt({<<"i", "n", "s", "t", "r", "u", "c", "t", "i", "o", "n", "s">>, <<"p", "r", "o", "m", "p", "t", "s">>, <<"c", "o", "m", "m", "a", "n", "d", "s">>})>>,
       \* you are now
       <<Lit(<<"y", "o", "u", " ", "a", "r", "e", " ", "n", "o", "w">>)>>,
       \* new (instructions|rules|role|personality)
       <<Lit(<<"n", "e", "w", " ">>),
         Alt({<<"i", "n", "s", "t", "r", "u", "c", "t", "i", "o", "n", "s">>, <<"r", "u", "l", "e", "s">>, <<"r", "o", "l", "e">>, <<"p", "e", "r", "s", "o", "n", "a", "l", "i", "t", "y">>})>>,
       \* system (prompt|message|role)
       <<Lit(<<"s", "y", "s", "t", "e", "m", " ">>),
         Alt({<<"p", "r", "o", "m", "p", "t">>, <<"m", "e", "s", "s", "a", "g", "e">>, <<"r", "o", "l", "e">>})>>,
       \* <\|.*?\|>
       <<Lit(<<"<", "|">>),
         AnyRun,
         Lit(<<"|", ">">>)>>,
       \* ###\s*instruction
       <<Lit(<<"#", "#", "#">>),
         SpaceRun,
         Lit(<<"i", "n", "s", "t", "r", "u", "c", "t", "i", "o", "n">>)>>,
       \* ---\s*instruction
       <<Lit(<<"-", "-", "-">>),
         SpaceRun,
         Lit(<<"i", "n", "s", "t", "r", "u", "c", "t", "i", "o", "n">>)>>,
       \* act as (if|though)
       <<Lit(<<"a", "c", "t", " ", "a", "s", " ">>),
         Alt({<<"i", "f">>, <<"t", "h", "o", "u", "g", "h">>})>>,
       \* pretend (you are|to be)
       <<Lit(<<"p", "r", "e", "t", "e", "n", "d", " ">>),
         Alt({<<"y", "o", "u", " ", "a", "r", "e">>, <<"t", "o", " ", "b", "e">>})>>,
       \* roleplay as
       <<Lit(<<"r", "o", "l", "e", "p", "l", "a", "y", " ", "a", "s">>)>>,
       \* simulate (being|a)
       <<Lit(<<"s", "i", "m", "u", "l", "a", "t", "e", " ">>),
         Alt({<<"b", "e", "i", "n", "g">>, <<"a">>})>>,
       \* (execute|run) (code|command|script)
       <<Alt({<<"e", "x", "e", "c", "u", "t", "e">>, <<"r", "u", "n">>}),
         Lit(<<" ">>),
         Alt({<<"c", "o", "d", "e">>, <<"c", "o", "m", "m", "a", "n", "d">>, <<"s", "c", "r", "i", "p", "t">>})>>,
       \* admin (mode|access|override)
       <<Lit(<<"a", "d", "m", "i", "n", " ">>),
         Alt({<<"m", "o", "d", "e">>, <<"a", "c", "c", "e", "s", "s">>, <<"o", "v", "e", "r", "r", "i", "d", "e">>})>>,
       \* developer (mode|access|override)
       <<Lit(<<"d", "e", "v", "e", "l", "o", "p", "e", "r", " ">>),
         Alt({<<"m", "o", "d", "e">>, <<"a", "c", "c", "e", "s", "s">>, <<"o", "v", "e", "r", "r", "i", "d", "e">>})>>,
       \* sudo
       <<Lit(<<"s", "u", "d", "o">>)>>,
       \* \[SYSTEM\]
       <<Lit(<<"[", "s", "y", "s", "t", "e", "m", "]">>)>>,
       \* \[ADMIN\]
       <<Lit(<<"[", "a", "d", "m", "i", "n", "]">>)>>
    >>

\* text[i..] starts with a match of the atoms pat[j..].
RECURSIVE MatchFrom(_, _, _, _)
MatchFrom(text, i, pat, j) ==
    IF j > Len(pat) THEN TRUE
    ELSE IF pat[j].atom = "alt"
    THEN \E w \in pat[j].alts :
            /\ i + Len(w) - 1 <= Len(text)
            /\ SubSeq(text, i, i + Len(w) - 1) = w
            /\ MatchFrom(text, i + Len(w), pat, j + 1)
    ELSE \E k \in 0..(Len(text) - i + 1) :
            /\ \A m \in i..(i + k - 1) :
                  IF pat[j].atom = "space" THEN isspace(text[m]) ELSE text[m] # "\n"
            /\ MatchFrom(text, i + k, pat, j + 1)

\* SUSPICIOUS_REGEX.search(text)
SuspiciousSearch(text) ==
    LET lowered == lower(text) IN
    \E n \in 1..Len(SUSPICIOUS_PATTERNS) :
        \E i \in 1..(Len(text) + 1) :
            MatchFrom(lowered, i, SUSPICIOUS_PATTERNS[n], 1)

\* The characters counted as special; U+0060 is the backtick.
SpecialChars == {"<", ">", "[", "]", "{", "}", "|", "#", "*", "U+0060"}

instruction_words ==
    { <<"i", "n", "s", "t", "r", "u", "c", "t", "i", "o", "n">>,
      <<"c", "o", "m", "m", "a", "n", "d">>,
      <<"p", "r", "o", "m", "p", "t">>,
      <<"s", "y", "s", "t", "e", "m">>,
      <<"i", "g", "n", "o", "r", "e">>,
      <<"d", "i", "s", "r", "e", "g", "a", "r", "d">> }

\* str.count(word): the occurrences of word in text[i..], not overlapping.
RECURSIVE CountFrom(_, _, _)
CountFrom(text, i, word) ==
    IF i + Len(word) - 1 > Len(text) THEN 0
    ELSE IF SubSeq(text, i, i + Len(word) - 1) = word
         THEN 1 + CountFrom(text, i + Len(word), word)
         ELSE CountFrom(text, i + 1, word)

\* detect_prompt_injection: (is_suspicious, reason)
detect_prompt_injection(text) ==
    IF text = <<>> THEN [is_suspicious |-> FALSE, reason |-> ""]
    ELSE IF SuspiciousSearch(text)
    THEN [is_suspicious |-> TRUE, reason |-> "Suspicious instruction patterns detected"]
    ELSE IF Cardinality({i \in 1..Len(text) : text[i] \in SpecialChars}) * 100
              > 15 * Len(text)
    THEN [is_suspicious |-> TRUE, reason |-> "Excessive special characters"]
    ELSE IF \E word \in instruction_words : CountFrom(lower(text), 1, word) > 3
    THEN [is_suspicious |-> TRUE, reason |-> "Repeated suspicious keywords"]
    ELSE [is_suspicious |-> FALSE, reason |-> ""]

\* A substitution that leaves every run as long as it is.
KeepRuns(text, i, ch, run) == SubSeq(text, i, Len(text))

\* re.sub(ch{4,}, ch ch ch, text): every run of four or more ch becomes three.
RECURSIVE CollapseFrom(_, _, _, _)
CollapseFrom(text, i, ch, run) ==
    IF i > Len(text) THEN <<>>
    ELSE IF text[i] = ch
         THEN (IF run >= 3 THEN <<>> ELSE <<ch>>) \o CollapseFrom(text, i + 1, ch, run + 1)
         ELSE <<text[i]>> \o CollapseFrom(text, i + 1, ch, 0)

\* A strip that takes one leading whitespace character only.
lstrip_once(text) == IF text # <<>> /\ isspace(Head(text)) THEN Tail(text) ELSE text

RECURSIVE lstrip(_)
lstrip(text) ==
    IF text # <<>> /\ isspace(Head(text)) THEN lstrip(Tail(text)) ELSE text

RECURSIVE rstrip(_)
rstrip(text) ==
    IF text # <<>> /\ isspace(text[Len(text)])
    THEN rstrip(SubSeq(text, 1, Len(text) - 1))
    ELSE text

\* str.strip()
strip(text) == rstrip(lstrip(text))

\* sanitize_user_input
sanitize_user_input(text, max_length) ==
    IF text = <<>> THEN <<>>
    ELSE LET KeepPrintable(ch) == isprintable(ch) \/ ch \in {"\n", "\t"}
             NotZeroWidth(ch) == ch \notin ZeroWidth
             trimmed == SubSeq(text, 1, IF Len(text) <= max_length THEN Len(text) ELSE max_length)
             printable == SelectSeq(trimmed, KeepPrintable)
             newlines == CollapseFrom(printable, 1, "\n", 0)
             spaces == CollapseFrom(newlines, 1, " ", 0)
             visible == SelectSeq(spaces, NotZeroWidth)
         IN  strip(visible)

\* The HTTPException(400) of validate_and_sanitize.
ValidationError(detail, field_name) ==
    [status_code |-> 400, detail |-> detail, field |-> field_name]

\* validate_and_sanitize: the cleaned text, or the HTTPException it raises.
validate_and_sanitize(text, field_name, max_length) ==
    IF text = <<>>
    THEN [raised |-> TRUE, cleaned |-> <<>>,
          error |-> ValidationError("Invalid field: must be a non-empty string", field_name)]
    ELSE LET cleaned == sanitize_user_input(text, max_length) IN
         IF cleaned = <<>>
         THEN [raised |-> TRUE, cleaned |-> <<>>,
               error |-> ValidationError("Field is empty after sanitization", field_name)]
         ELSE IF detect_prompt_injection(cleaned).is_suspicious
         THEN [raised |-> TRUE, cleaned |-> <<>>,
               error |-> ValidationError("Your field contains patterns that may compromise security. Please rephrase your request.", field_name)]
         ELSE [raised |-> FALSE, cleaned |-> cleaned, error |-> NoError]

\* No text is before the guard.
GuardIdle ==
    guard = [ pc |-> "idle", text |-> <<>>, max_length |-> 0, cleaned |-> <<>>,
              again |-> <<>>, outcome |-> [raised |-> FALSE, cleaned |-> <<>>, error |-> NoError] ]

(***************************************************************************)
(* The fixed-window rate limiter, utils/rate_limiter.py.                   *)
(***************************************************************************)
RATE_LIMIT_REQUESTS == 60

RATE_LIMIT_WINDOW_MINUTES == 1

\* A window of no duration.
no_window(window_minutes) == 0

\* timedelta(minutes = window_minutes), in ticks
timedelta(window_minutes) == window_minutes * TicksPerMinute

\* datetime.isoformat(), the form in which the reset time is reported
isoformat(t) == <<"T", t>>

\* A store that forgets: every call finds a fresh entry.
FreshClientData(store, client_id, created_at) == [count |-> 0, reset_time |-> created_at]

\* request_counts[client_id]: the defaultdict makes the entry of a client it
\* has not seen, with the time of that moment as its reset time.
ClientData(store, client_id, created_at) ==
    IF client_id \in DOMAIN store
    THEN store[client_id]
    ELSE [count |-> 0, reset_time |-> created_at]

LimitPassed(count, requests_limit) == count > requests_limit

\* "if client_data['count'] >= requests_limit"
LimitReached(count, requests_limit) == count >= requests_limit

\* A limiter that counts the call before it tests the limit, so that a
\* rejected call is counted too.
count_then_check(store, client_id, requests_limit, window_minutes, current_time, created_at) ==
    LET client_data == ClientData(store, client_id, created_at)
        windowed == IF current_time >= client_data.reset_time
                    THEN [count |-> 0, reset_time |-> current_time + timedelta(window_minutes)]
                    ELSE client_data
        counted == [windowed EXCEPT !.count = @ + 1]
    IN  [ is_allowed |-> counted.count <= requests_limit,
          info |-> [ limit |-> requests_limit,
                     remaining |-> IF counted.count <= requests_limit
                                   THEN requests_limit - counted.count ELSE 0,
                     reset_time |-> isoformat(counted.reset_time) ],
          store |-> (client_id :> counted) @@ store ]

\* check_rate_limit, called at current_time; created_at is the time at which
\* the entry of a new client is made (not before current_time).  The answer is
\* (is_allowed, info) and the store as the call leaves it.
check_rate_limit(store, client_id, requests_limit, window_minutes, current_time, created_at) ==
    LET client_data == ClientData(store, client_id, created_at)
        rate_limit_window == timedelta(window_minutes)
        windowed == IF current_time >= client_data.reset_time
                    THEN [count |-> 0, reset_time |-> current_time + rate_limit_window]
                    ELSE client_data
    IN  IF LimitReached(windowed.count, requests_limit)
        THEN [ is_allowed |-> FALSE,
               info |-> [ limit |-> requests_limit, remaining |-> 0,
                          reset_time |-> isoformat(windowed.reset_time) ],
               store |-> (client_id :> windowed) @@ store ]
        ELSE LET counted == [windowed EXCEPT !.count = @ + 1] IN
             [ is_allowed |-> TRUE,
               info |-> [ limit |-> requests_limit,
                          remaining |-> requests_limit - counted.count,
                          reset_time |-> isoformat(counted.reset_time) ],
               store |-> (client_id :> counted) @@ store ]

\* History kept beside the store.  A window of a client starts with a call
\* that finds no entry or an entry whose reset time has come; win counts the
\* calls of the current window (up to one past the limit) and remembers the
\* limit they all used (0 when they used different limits).
WindowStarts(store, client_id, current_time) ==
    \/ client_id \notin DOMAIN store
    \/ current_time >= store[client_id].reset_time

NoteCall(w, store, client_id, requests_limit, current_time) ==
    LET before == IF client_id \in DOMAIN w /\ ~WindowStarts(store, client_id, current_time)
                  THEN w[client_id]
                  ELSE [calls |-> 0, limit |-> requests_limit]
    IN  (client_id :> [ calls |-> IF before.calls <= requests_limit
                                  THEN before.calls + 1 ELSE requests_limit + 1,
                        limit |-> IF before.limit = requests_limit
                                  THEN requests_limit ELSE 0 ]) @@ w

NoCheck ==
    [ client |-> "", limit |-> 0, index |-> 0, uniform |-> FALSE, first |-> FALSE,
      restart |-> FALSE, is_allowed |-> FALSE,
      info |-> [limit |-> 0, remaining |-> 0, reset_time |-> isoformat(0)] ]

\* The record of one call: index is its place among the calls of its window.
CheckRecord(w, store, client_id, requests_limit, current_time, answer) ==
    LET noted == NoteCall(w, store, client_id, requests_limit, current_time)[client_id] IN
    [ client |-> client_id, limit |-> requests_limit, index |-> noted.calls,
      uniform |-> noted.limit = requests_limit,
      first |-> WindowStarts(store, client_id, current_time),
      restart |-> client_id \in DOMAIN store /\ WindowStarts(store, client_id, current_time),
      is_allowed |-> answer.is_allowed, info |-> answer.info ]

LimiterIdle ==
    /\ request_counts = <<>>
    /\ now = 0
    /\ win = <<>>
    /\ last_check = NoCheck

\* No concurrent request is being served and no admission has been noted.
WindowIdle ==
    /\ tasks = [pc |-> <<>>, admitted |-> 0]
    /\ burst = [limit |-> 0, admitted |-> <<>>]

\* The times at which the entry of client_id can be made by a call at now: the
\* clock may have advanced between the two readings of datetime.now().
CreationTimes(store, client_id) ==
    IF client_id \in DOMAIN store THEN {now} ELSE {t \in {now, now + 1} : t <= MaxTime}

Tick ==
    /\ now < MaxTime
    /\ now' = now + 1
    /\ UNCHANGED <<providerVars, request_counts, win, last_check, apiVars, routerVars, guard, tasks, burst, choice>>

(***************************************************************************)
(* The image service, services/image_service.py.                           *)
(***************************************************************************)
ImageKeys == [grok_image_key : BOOLEAN, image_key : BOOLEAN]

\* request.provider and request.quality; "None" is the absent value and
\* "dalle" and "best" stand for the names the service does not know.
ImageProviders == {"None", "gemini", "grok", "pollinations", "fal", "dalle"}

Qualities == {"None", "fast", "balanced", "high", "ultra", "best"}

ImageIdle ==
    [pc |-> "idle", selected |-> "", posts |-> <<>>, provider |-> "", error |-> NoError]

ImageReturn(st, provider) == [st EXCEPT !.pc = "returned", !.provider = provider]

ImageRaise(st, e) == [st EXCEPT !.pc = "raised", !.error = e]

ImagePost(st, provider) ==
    [st EXCEPT !.pc = "await_" \o provider, !.posts = Append(@, provider)]

\* "gemini" if GEMINI_API_KEY else "pollinations"
GeminiOrPollinations(c) == IF c.gemini_key THEN "gemini" ELSE "pollinations"

\* The choice of selected_provider.
SelectImageProvider(provider, quality, c, k) ==
    IF provider = "None"
    THEN LET quality_tier == IF quality = "None" THEN "balanced" ELSE quality IN
         IF quality_tier = "fast" THEN "pollinations"
         ELSE IF quality_tier = "balanced" THEN "pollinations"
         ELSE IF quality_tier = "high" THEN GeminiOrPollinations(c)
         ELSE IF quality_tier = "ultra"
         THEN (IF k.grok_image_key THEN "grok" ELSE GeminiOrPollinations(c))
         ELSE "pollinations"
    ELSE provider

\* The blocks of generate_image_asset in the order of the source, each up to
\* its POST or to the end of the function.
ImageFromFal(st, c, k) ==
    IF st.selected = "fal"
    THEN IF ~k.image_key
         THEN ImageRaise(st, HTTPException(500, "Image API key not configured"))
         ELSE ImagePost(st, "fal")
    ELSE ImageRaise(st, HTTPException(400, "Unsupported image provider configuration"))

ImageFromPollinations(st, c, k) ==
    IF st.selected = "pollinations"
    THEN ImageReturn(st, "pollinations")
    ELSE ImageFromFal(st, c, k)

ImageFromGrok(st, c, k) ==
    IF st.selected = "grok"
    THEN IF ~k.grok_image_key
         THEN ImageFromPollinations([st EXCEPT !.selected = GeminiOrPollinations(c)], c, k)
         ELSE ImagePost(st, "grok")
    ELSE ImageFromPollinations(st, c, k)

ImageFromGemini(st, c, k) ==
    IF st.selected = "gemini"
    THEN IF ~c.gemini_key
         THEN ImageFromGrok([st EXCEPT !.selected = "pollinations"], c, k)
         ELSE ImagePost(st, "gemini")
    ELSE ImageFromGrok(st, c, k)

generate_image_asset(provider, quality, c, k) ==
    ImageFromGemini([ImageIdle EXCEPT !.selected = SelectImageProvider(provider, quality, c, k)], c, k)

\* What a POST can answer: a usable image, a status other than 200, or a 200
\* whose body holds no image.
ImageAnswers == {"image", "status", "empty"}

image_on_response(st, answer, c, k) ==
    IF st.pc = "await_gemini"
    THEN IF answer = "image" THEN ImageReturn(st, "gemini")
         ELSE ImageFromGrok([st EXCEPT !.selected = "pollinations"], c, k)
    ELSE IF st.pc = "await_grok"
    THEN IF answer = "image" THEN ImageReturn(st, "grok")
         ELSE ImageFromPollinations([st EXCEPT !.selected = GeminiOrPollinations(c)], c, k)
    ELSE IF answer = "image" THEN ImageReturn(st, "fal")
         ELSE IF answer = "status"
         THEN ImageRaise(st, HTTPException(500, "Image provider error"))
         ELSE ImageRaise(st, HTTPException(500, "Invalid response from image provider"))

\* The POST raises (timeout, connection error): caught in the gemini and grok
\* blocks; from the fal block it leaves the function as it is.
ImageTransportError == [status_code |-> 0, detail |-> "httpx error"]

image_on_exception(st, c, k) ==
    IF st.pc = "await_gemini"
    THEN ImageFromGrok([st EXCEPT !.selected = "pollinations"], c, k)
    ELSE IF st.pc = "await_grok"
    THEN ImageFromPollinations([st EXCEPT !.selected = GeminiOrPollinations(c)], c, k)
    ELSE ImageRaise(st, ImageTransportError)

(***************************************************************************)
(* The HTTP handlers, api/routes.py.                                       *)
(***************************************************************************)
TextRoutes == {"summarize", "generate-ideas", "refine-content", "chat"}

GameDevRoutes ==
    {"gamedev/story", "gamedev/dialogue", "gamedev/mechanics", "gamedev/code", "gamedev/explain"}

ImageRoute == "generate-image"

\* The content endpoints: a route, and whether it is the /stream variant.
Endpoints ==
    [route : TextRoutes \cup GameDevRoutes, stream : BOOLEAN]
        \cup {[route |-> ImageRoute, stream |-> FALSE]}

\* The handlers that call check_rate_limit.
RateLimited(e) == e.route = "summarize"

\* The handlers with an "except HTTPException: raise" clause.
ReRaisesHTTPException(e) == e.route \notin GameDevRoutes

\* The field every handler validates, with its max_length.
FirstField(e) ==
    IF e.route \in {"summarize", "refine-content"} THEN [name |-> "text", max_length |-> 10000]
    ELSE IF e.route = "generate-ideas" THEN [name |-> "topic", max_length |-> 500]
    ELSE IF e.route = "chat" THEN [name |-> "message", max_length |-> 2000]
    ELSE IF e.route = ImageRoute THEN [name |-> "prompt", max_length |-> 1000]
    ELSE [name |-> "prompt", max_length |-> 2000]

\* The optional field validated when it is not empty.
HasSecondField(e) == e.route \in {"refine-content", ImageRoute}

SecondField(e) ==
    IF e.route = "refine-content"
    THEN [name |-> "instruction", max_length |-> 500]
    ELSE [name |-> "style", max_length |-> 500]

\* The HTTPException(500) of the handler's "except Exception" clause.
HandlerFailure(e) ==
    [status_code |-> 500, detail |-> "Failed to serve the request", route |-> e.route, stream |-> e.stream]

RateLimitExceeded(rate_info) ==
    [status_code |-> 429, detail |-> "Rate limit exceeded. Try again after",
     reset_time |-> rate_info.reset_time]

client_id == "default"

\* A call that lets one request more through than the limit.
LenientAdmission(e, store, current_time, created_at) ==
    check_rate_limit(store, client_id, RATE_LIMIT_REQUESTS + 1, RATE_LIMIT_WINDOW_MINUTES,
                     current_time, created_at)

\* The handler's call of check_rate_limit.
Admission(e, store, current_time, created_at) ==
    check_rate_limit(store, client_id, RATE_LIMIT_REQUESTS, RATE_LIMIT_WINDOW_MINUTES,
                     current_time, created_at)

\* The handler's calls of validate_and_sanitize.
Validate(e, body) ==
    LET first == validate_and_sanitize(body.text, FirstField(e).name, FirstField(e).max_length) IN
    IF first.raised THEN first
    ELSE IF HasSecondField(e) /\ body.extra # <<>>
         THEN validate_and_sanitize(body.extra, SecondField(e).name, SecondField(e).max_length)
         ELSE first

\* The request in service and what has happened to it; status 0: no response yet.
ReqIdle ==
    [ pc |-> "idle", endpoint |-> [route |-> "", stream |-> FALSE], status |-> 0,
      error |-> NoError, output |-> NoResult,
      consulted |-> FALSE, admitted |-> FALSE, consumed |-> FALSE, index |-> 0,
      reset_time |-> isoformat(0), validation |-> "none" ]

ApiIdle ==
    /\ req = ReqIdle
    /\ img = ImageIdle
    /\ imgkeys = [grok_image_key |-> FALSE, image_key |-> FALSE]

\* The handler raises exc: its except clauses decide what the client gets.
Respond(r, exc) ==
    IF ReRaisesHTTPException(r.endpoint) /\ exc # ImageTransportError
    THEN [r EXCEPT !.pc = "done", !.status = exc.status_code, !.error = exc]
    ELSE [r EXCEPT !.pc = "done", !.status = 500, !.error = HandlerFailure(r.endpoint)]

RespondOutput(r, output) == [r EXCEPT !.pc = "done", !.status = 200, !.output = output]

\* StreamingResponse(sse_generator(...)): the response starts with status 200.
RespondStream(r) == [r EXCEPT !.pc = "streaming", !.status = 200]

\* The handler after generate_image_asset has come to st.
RespondImage(r, st) ==
    IF st.pc = "returned" THEN RespondOutput(r, st.provider)
    ELSE IF st.pc = "raised" THEN Respond(r, st.error)
    ELSE [r EXCEPT !.pc = "await"]

\* The handler after call_ai_with_routing has come to st.
RespondChain(r, st) ==
    IF st.pc = "returned" THEN RespondOutput(r, st.result)
    ELSE IF st.pc = "raised" THEN Respond(r, st.error)
    ELSE [r EXCEPT !.pc = "await"]

\* Request bodies: the text of the first field and of the optional one, and
\* for the image endpoint the provider and quality asked for.
Texts ==
    { <<>>, <<" ", "U+200B">>, <<"h", "i">>, <<"S", "u", "d", "o">>,
      <<"<", "|", "e", "n", "d", "|", ">">> }

Extras == { <<>>, <<"o", "k">>, <<"[", "A", "D", "M", "I", "N", "]">> }

Bodies(e) ==
    [ text : Texts,
      extra : IF HasSecondField(e) THEN Extras ELSE {<<>>},
      provider : IF e.route = ImageRoute THEN ImageProviders ELSE {"None"},
      quality : IF e.route = ImageRoute THEN Qualities ELSE {"None"} ]

(***************************************************************************)
(* The model router, model_router.py.                                      *)
(***************************************************************************)
TaskTypes ==
    { "text_generation", "code_generation", "image_generation", "summarization",
      "creative_writing", "technical_writing", "chat", "analysis" }

\* MODEL_CONFIGS, and its keys in the order the dict holds them.
ModelOrder ==
    << "gemini-2.0-flash-thinking", "gemini-2.5-flash", "llama-3.3-70b", "mixtral-8x7b",
       "mistral-large", "pollinations-flux", "picsum-photos" >>

MODEL_CONFIGS ==
    [ m \in {ModelOrder[i] : i \in 1..Len(ModelOrder)} |->
        CASE m = "gemini-2.0-flash-thinking" ->
                [ provider |-> "gemini", speed |-> "fast", quality |-> 90,
                  strengths |-> {"text_generation", "analysis", "creative_writing"} ]
          [] m = "gemini-2.5-flash" ->
                [ provider |-> "gemini", speed |-> "very_fast", quality |-> 85,
                  strengths |-> {"chat", "summarization"} ]
          [] m = "llama-3.3-70b" ->
                [ provider |-> "groq", speed |-> "very_fast", quality |-> 92,
                  strengths |-> {"code_generation", "technical_writing"} ]
          [] m = "mixtral-8x7b" ->
                [ provider |-> "groq", speed |-> "fast", quality |-> 88,
                  strengths |-> {"text_generation", "analysis"} ]
          [] m = "mistral-large" ->
                [ provider |-> "mistral", speed |-> "medium", quality |-> 90,
                  strengths |-> {"code_generation", "technical_writing"} ]
          [] m = "pollinations-flux" ->
                [ provider |-> "pollinations", speed |-> "fast", quality |-> 85,
                  strengths |-> {"image_generation"} ]
          [] m = "picsum-photos" ->
                [ provider |-> "picsum", speed |-> "very_fast", quality |-> 75,
                  strengths |-> {"image_generation"} ] ]

\* The model the router falls back to.
DefaultModel == "gemini-2.0-flash-thinking"

\* self.gemini_key, self.groq_key, self.mistral_key: set or empty.
RouterKeys == [gemini_key : BOOLEAN, groq_key : BOOLEAN, mistral_key : BOOLEAN]

\* "word in prompt_lower"
Contains(text, word) ==
    \E i \in 1..(Len(text) - Len(word) + 1) : SubSeq(text, i, i + Len(word) - 1) = word

\* The keyword lists of analyze_task_type, in the order they are tried.
TaskKeywords ==
    <<
       [ task_type |-> "code_generation",
         words |-> { <<"c", "o", "d", "e">>,
                    <<"f", "u", "n", "c", "t", "i", "o", "n">>,
                    <<"c", "l", "a", "s", "s">>,
                    <<"d", "e", "b", "u", "g">>,
                    <<"p", "y", "t", "h", "o", "n">>,
                    <<"j", "a", "v", "a", "s", "c", "r", "i", "p", "t">>,
                    <<"p", "r", "o", "g", "r", "a", "m", "m", "i", "n", "g">> } ],
       [ task_type |-> "image_generation",
         words |-> { <<"i", "m", "a", "g", "e">>,
                    <<"p", "i", "c", "t", "u", "r", "e">>,
                    <<"p", "h", "o", "t", "o">>,
                    <<"g", "e", "n", "e", "r", "a", "t", "e", " ", "i", "m", "a", "g", "e">>,
                    <<"c", "r", "e", "a", "t", "e", " ", "i", "m", "a", "g", "e">> } ],
       [ task_type |-> "summarization",
         words |-> { <<"s", "u", "m", "m", "a", "r", "i", "z", "e">>,
                    <<"s", "u", "m", "m", "a", "r", "y">>,
                    <<"t", "l", "d", "r">>,
                    <<"b", "r", "i", "e", "f">>,
                    <<"k", "e", "y", " ", "p", "o", "i", "n", "t", "s">> } ],
       [ task_type |-> "creative_writing",
         words |-> { <<"s", "t", "o", "r", "y">>,
                    <<"p", "o", "e", "m">>,
                    <<"c", "r", "e", "a", "t", "i", "v", "e">>,
                    <<"w", "r", "i", "t", "e", " ", "a">>,
                    <<"c", "o", "m", "p", "o", "s", "e">> } ],
       [ task_type |-> "technical_writing",
         words |-> { <<"d", "o", "c", "u", "m", "e", "n", "t", "a", "t", "i", "o", "n">>,
                    <<"t", "e", "c", "h", "n", "i", "c", "a", "l">>,
                    <<"e", "x", "p", "l", "a", "i", "n">>,
                    <<"h", "o", "w", " ", "t", "o">>,
                    <<"t", "u", "t", "o", "r", "i", "a", "l">> } ],
       [ task_type |-> "analysis",
         words |-> { <<"a", "n", "a", "l", "y", "z", "e">>,
                    <<"c", "o", "m", "p", "a", "r", "e">>,
                    <<"e", "v", "a", "l", "u", "a", "t", "e">>,
                    <<"a", "s", "s", "e", "s", "s">>,
                    <<"r", "e", "v", "i", "e", "w">> } ]
    >>

\* Prompts given to route_and_execute.
Prompts ==
    { <<"H", "i", " ", "t", "h", "e", "r", "e">>,
      <<"D", "e", "b", "u", "g", " ", "a", " ", "s", "t", "o", "r", "y">>,
      <<"T", "L", "D", "R", " ", "o", "f", " ", "t", "h", "e", " ", "p", "h", "o", "t", "o">>,
      <<"E", "x", "p", "l", "a", "i", "n", " ", "t", "h", "e", " ", "r", "e", "v", "i", "e", "w">>,
      <<"C", "o", "m", "p", "o", "s", "e">>,
      <<"h", "o", "w", " ", "t", "o", " ", "a", "s", "s", "e", "s", "s">>,
      <<"W", "r", "i", "t", "e", " ", "a", " ", "f", "u", "n", "c", "t", "i", "o", "n", " ", "t", "o", " ", "s", "o", "r", "t", " ", "a", " ", "l", "i", "s", "t">>,
      <<"s", "u", "m", "m", "a", "r", "i", "z", "e", " ", "t", "h", "i", "s", " ", "a", "r", "t", "i", "c", "l", "e">>,
      <<"E", "v", "a", "l", "u", "a", "t", "e">> }

\* A classification by the last keyword list that matches.
LastKeywordMatch(prompt_lower, i) ==
    LET hits == {k \in i..Len(TaskKeywords) :
                    \E word \in TaskKeywords[k].words : Contains(prompt_lower, word)}
    IN  IF hits = {} THEN "chat"
        ELSE TaskKeywords[CHOOSE k \in hits : \A j \in hits : j <= k].task_type

RECURSIVE FirstKeywordMatch(_, _)
FirstKeywordMatch(prompt_lower, i) ==
    IF i > Len(TaskKeywords) THEN "chat"
    ELSE IF \E word \in TaskKeywords[i].words : Contains(prompt_lower, word)
         THEN TaskKeywords[i].task_type
         ELSE FirstKeywordMatch(prompt_lower, i + 1)

analyze_task_type(prompt) == FirstKeywordMatch(lower(prompt), 1)

\* list.sort(key = ..., reverse = True): descending, and stable (elements
\* with equal keys keep their order).  key maps each element to an integer.
RECURSIVE InsertDescending(_, _, _)
InsertDescending(sorted, x, key) ==
    IF sorted = <<>> THEN <<x>>
    ELSE IF key[Head(sorted)] >= key[x]
         THEN <<Head(sorted)>> \o InsertDescending(Tail(sorted), x, key)
         ELSE <<x>> \o sorted

RECURSIVE SortDescending(_, _)
SortDescending(seq, key) ==
    IF seq = <<>> THEN <<>>
    ELSE InsertDescending(SortDescending(SubSeq(seq, 1, Len(seq) - 1), key), seq[Len(seq)], key)

\* A key that ranks the models by quality the wrong way round.
InvertedQualityKey == [m \in DOMAIN MODEL_CONFIGS |-> 100 - MODEL_CONFIGS[m].quality]

QualityKey == [m \in DOMAIN MODEL_CONFIGS |-> MODEL_CONFIGS[m].quality]

\* A key under which no model is faster than another.
FlatSpeedKey == [m \in DOMAIN MODEL_CONFIGS |-> 0]

\* The key x[1]["speed"] == "very_fast": True sorts as 1, False as 0.
SpeedKey == [m \in DOMAIN MODEL_CONFIGS |-> IF MODEL_CONFIGS[m].speed = "very_fast" THEN 1 ELSE 0]

\* preferences: None and the empty dict behave alike (both flags unset).
Preferences == [speed_priority : BOOLEAN, quality_priority : BOOLEAN]

ModelAvailable(m, keys) ==
    LET provider == MODEL_CONFIGS[m].provider IN
    \/ provider = "gemini" /\ keys.gemini_key
    \/ provider = "groq" /\ keys.groq_key
    \/ provider = "mistral" /\ keys.mistral_key
    \/ provider \in {"pollinations", "picsum"}

\* A selection that takes the first suitable model whether or not its provider
\* has a key.
FirstListed(models, keys) == IF models = <<>> THEN DefaultModel ELSE Head(models)

RECURSIVE FirstAvailable(_, _)
FirstAvailable(models, keys) ==
    IF models = <<>> THEN DefaultModel
    ELSE IF ModelAvailable(Head(models), keys) THEN Head(models)
         ELSE FirstAvailable(Tail(models), keys)

\* A selection in which quality_priority keeps the best-scored model alone,
\* so that the other candidates are never tried.
select_top_only(task_type, preferences, keys) ==
    LET Suits(m) == task_type \in MODEL_CONFIGS[m].strengths
        suitable_models == SelectSeq(ModelOrder, Suits)
        by_quality == SortDescending(suitable_models, QualityKey)
        preferred == IF preferences.speed_priority
                     THEN SortDescending(by_quality, SpeedKey)
                     ELSE IF preferences.quality_priority
                          THEN SubSeq(by_quality, 1, 1)
                          ELSE by_quality
    IN  IF suitable_models = <<>> THEN DefaultModel
        ELSE FirstAvailable(preferred, keys)

select_best_model(task_type, preferences, keys) ==
    LET Suits(m) == task_type \in MODEL_CONFIGS[m].strengths
        suitable_models == SelectSeq(ModelOrder, Suits)
        by_quality == SortDescending(suitable_models, QualityKey)
        preferred == IF preferences.speed_priority
                     THEN SortDescending(by_quality, SpeedKey)
                     ELSE IF preferences.quality_priority
                          THEN SortDescending(by_quality, QualityKey)
                          ELSE by_quality
    IN  IF suitable_models = <<>> THEN DefaultModel
        ELSE FirstAvailable(preferred, keys)

\* The exceptions of the _execute_ methods.
KeyNotConfigured(provider) == [kind |-> "Exception", detail |-> "API key not configured", provider |-> provider]

ProviderApiError(provider) == [kind |-> "Exception", detail |-> "API error", provider |-> provider]

NoException == [kind |-> "", detail |-> "", provider |-> ""]

NoRouteResult ==
    [ success |-> FALSE, output |-> NoResult, model_used |-> "", provider |-> "",
      task_type |-> "", fallback |-> FALSE ]

\* One call of route_and_execute.  attempts lists the models whose _execute_
\* method was called and posts those whose provider was sent a request;
\* tracked lists the keys this call gave to _track_usage; given is the
\* task_type argument and classified the prompt analyze_task_type was given
\* (<<>> when it was not called); overlapped tells that another call was
\* suspended in its provider call when the provider of this one answered.
RouteIdle ==
    [ pc |-> "idle", task_type |-> "", model_name |-> "", result |-> NoRouteResult,
      error |-> NoException, attempts |-> <<>>, posts |-> <<>>, tracked |-> <<>>,
      given |-> "", classified |-> <<>>, overlapped |-> FALSE ]

\* A _track_usage that writes 1 for the key, whatever it held.
track_first(stats, model_name, task_type) == (<<model_name, task_type>> :> 1) @@ stats

\* A _track_usage that records nothing.
track_nothing(stats, model_name, task_type) == stats

\* _track_usage
track_usage(stats, model_name, task_type) ==
    LET key == <<model_name, task_type>> IN
    (key :> (IF key \in DOMAIN stats THEN stats[key] ELSE 0) + 1) @@ stats

\* The return of the try block: usage tracked, result with fallback False.
RouteReturn(st, stats, output) ==
    [ rt |-> [st EXCEPT !.pc = "returned",
                        !.tracked = Append(@, <<st.model_name, st.task_type>>),
                        !.result = [ success |-> TRUE, output |-> output,
                                     model_used |-> st.model_name,
                                     provider |-> MODEL_CONFIGS[st.model_name].provider,
                                     task_type |-> st.task_type, fallback |-> FALSE ]],
      stats |-> track_usage(stats, st.model_name, st.task_type) ]

\* A raise that counts the failed call as a use of its model.
RouteRaiseCounted(st, stats, e) ==
    [ rt |-> [st EXCEPT !.pc = "raised", !.error = e,
                        !.tracked = Append(@, <<st.model_name, st.task_type>>)],
      stats |-> track_usage(stats, st.model_name, st.task_type) ]

RouteRaise(st, stats, e) ==
    [rt |-> [st EXCEPT !.pc = "raised", !.error = e], stats |-> stats]

\* _fallback_to_gemini up to the POST of _execute_gemini.
fallback_to_gemini(st, stats, keys) ==
    LET tried == [st EXCEPT !.attempts = Append(@, DefaultModel)] IN
    IF ~keys.gemini_key
    THEN RouteRaise(tried, stats, KeyNotConfigured("gemini"))
    ELSE [rt |-> [tried EXCEPT !.pc = "await_fallback", !.posts = Append(@, DefaultModel)],
          stats |-> stats]

\* The return of _fallback_to_gemini.
FallbackReturn(st, stats, output) ==
    [ rt |-> [st EXCEPT !.pc = "returned",
                        !.result = [ success |-> TRUE, output |-> output,
                                     model_used |-> DefaultModel, provider |-> "gemini",
                                     task_type |-> st.task_type, fallback |-> TRUE ]],
      stats |-> stats ]

\* An except clause that retries on the default model whatever model failed.
RouteAlwaysFallsBack(st, stats, keys, e) == fallback_to_gemini(st, stats, keys)

\* The except clause of route_and_execute.
RouteOnException(st, stats, keys, e) ==
    IF st.model_name # DefaultModel
    THEN fallback_to_gemini(st, stats, keys)
    ELSE RouteRaise(st, stats, e)

\* route_and_execute up to its first POST, or to its end when none is sent.
route_and_execute(stats, keys, prompt, task_type, preferences) ==
    LET task == IF task_type = "None" THEN analyze_task_type(prompt) ELSE task_type
        model_name == select_best_model(task, preferences, keys)
        provider == MODEL_CONFIGS[model_name].provider
        st == [RouteIdle EXCEPT !.task_type = task, !.model_name = model_name,
                                !.attempts = <<model_name>>, !.given = task_type,
                                !.classified = IF task_type = "None" THEN prompt ELSE <<>>]
    IN  IF provider \in {"pollinations", "picsum"}
        THEN RouteReturn(st, stats, "image_url")
        ELSE IF ~ModelAvailable(model_name, keys)
        THEN RouteOnException(st, stats, keys, KeyNotConfigured(provider))
        ELSE [rt |-> [st EXCEPT !.pc = "await_primary", !.posts = Append(@, model_name)],
              stats |-> stats]

\* The awaited POST answers 200 with a completion.
route_on_result(st, stats, output) ==
    IF st.pc = "await_primary"
    THEN RouteReturn(st, stats, output)
    ELSE FallbackReturn(st, stats, output)

\* The awaited POST fails: another status, a body without a completion, or
\* an httpx error.
route_on_exception(st, stats, keys) ==
    IF st.pc = "await_primary"
    THEN RouteOnException(st, stats, keys, ProviderApiError(MODEL_CONFIGS[st.model_name].provider))
    ELSE RouteRaise(st, stats, ProviderApiError("gemini"))

\* The calls of route_and_execute that may be in progress together.
RouterCalls == {1, 2}

RouterIdle ==
    /\ rkeys = [gemini_key |-> FALSE, groq_key |-> FALSE, mistral_key |-> FALSE]
    /\ rt = [c \in RouterCalls |-> RouteIdle]
    /\ usage_stats = <<>>
    /\ choice = [pc |-> "idle", task_type |-> "", preferences |-> <<>>, model_name |-> ""]

RouteCall(c, prompt, task_type, preferences) ==
    /\ rt[c].pc = "idle"
    /\ LET next == route_and_execute(usage_stats, rkeys, prompt, task_type, preferences) IN
          /\ rt' = [rt EXCEPT ![c] = next.rt]
          /\ usage_stats' = next.stats
    /\ UNCHANGED <<rkeys, providerVars, limiterVars, apiVars, guard, tasks, burst, choice>>

RouteProviderResponds(c, output) ==
    /\ rt[c].pc \in {"await_primary", "await_fallback"}
    /\ LET next == route_on_result(rt[c], usage_stats, output)
           suspended == \E other \in RouterCalls \ {c} :
                           rt[other].pc \in {"await_primary", "await_fallback"}
       IN
          /\ rt' = [rt EXCEPT ![c] = [next.rt EXCEPT !.overlapped = suspended]]
          /\ usage_stats' = next.stats
    /\ UNCHANGED <<rkeys, providerVars, limiterVars, apiVars, guard, tasks, burst, choice>>

RouteProviderFails(c) ==
    /\ rt[c].pc \in {"await_primary", "await_fallback"}
    /\ LET next == route_on_exception(rt[c], usage_stats, rkeys) IN
          /\ rt' = [rt EXCEPT ![c] = next.rt]
          /\ usage_stats' = next.stats
    /\ UNCHANGED <<rkeys, providerVars, limiterVars, apiVars, guard, tasks, burst, choice>>

(***************************************************************************)
(* Specification of the chain alone: one call of call_ai_with_routing      *)
(* under every configuration and every behaviour of the providers.         *)
(***************************************************************************)
InitChain ==
    /\ cfg \in Configs
    /\ chain = ChainIdle
    /\ relay = RelayIdle
    /\ events = <<>>
    /\ LimiterIdle
    /\ ApiIdle
    /\ RouterIdle
    /\ GuardIdle
    /\ WindowIdle

ChainCall ==
    /\ chain.pc = "idle"
    /\ chain' = call_ai_with_routing(cfg)
    /\ UNCHANGED <<cfg, relay, events, limiterVars, apiVars, routerVars, guard, tasks, burst, choice>>

ChainProviderReturns ==
    /\ chain.pc = "await"
    /\ \E text \in ProviderTexts : chain' = call_ai_on_result(chain, text)
    /\ UNCHANGED <<cfg, relay, events, limiterVars, apiVars, routerVars, guard, tasks, burst, choice>>

ChainProviderRaises ==
    /\ chain.pc = "await"
    /\ \E e \in CallErrors : chain' = call_ai_on_exception(chain, e)
    /\ UNCHANGED <<cfg, relay, events, limiterVars, apiVars, routerVars, guard, tasks, burst, choice>>

NextChain == ChainCall \/ ChainProviderReturns \/ ChainProviderRaises

SpecChain == InitChain /\ [][NextChain]_vars

(***************************************************************************)
(* Specification of the relay alone: one run of sse_generator.             *)
(***************************************************************************)
InitRelay ==
    /\ cfg \in Configs
    /\ chain = ChainIdle
    /\ relay = RelayReady
    /\ events = <<>>
    /\ LimiterIdle
    /\ ApiIdle
    /\ RouterIdle
    /\ GuardIdle
    /\ WindowIdle

\* The first iteration of sse_generator starts stream_ai_with_routing.
RelayStart ==
    /\ relay.pc = "ready"
    /\ LET st == stream_ai_with_routing(cfg) IN
       /\ relay' = st
       /\ events' = IF st.pc = "raised"
                    THEN SseOnException(events, st.last_error)
                    ELSE events
    /\ UNCHANGED <<cfg, chain, limiterVars, apiVars, routerVars, guard, tasks, burst, choice>>

RelayProviderYields ==
    /\ relay.pc = "streaming"
    /\ ChunkCount(relay.attempts) < MaxChunks
    /\ \E c \in Chunks :
         /\ relay' = stream_on_chunk(relay, c)
         /\ events' = SseOnChunk(events, c)
    /\ UNCHANGED <<cfg, chain, limiterVars, apiVars, routerVars, guard, tasks, burst, choice>>

RelayProviderEnds ==
    /\ relay.pc = "streaming"
    /\ relay' = stream_on_end(relay)
    /\ events' = SseOnEnd(events)
    /\ UNCHANGED <<cfg, chain, limiterVars, apiVars, routerVars, guard, tasks, burst, choice>>

RelayProviderRaises ==
    /\ relay.pc = "streaming"
    /\ \E e \in StreamErrors :
         LET st == stream_on_exception(relay, e) IN
         /\ relay' = st
         /\ events' = IF st.pc = "raised"
                      THEN SseOnException(events, st.last_error)
                      ELSE events
    /\ UNCHANGED <<cfg, chain, limiterVars, apiVars, routerVars, guard, tasks, burst, choice>>

NextRelay ==
    RelayStart \/ RelayProviderYields \/ RelayProviderEnds \/ RelayProviderRaises

SpecRelay == InitRelay /\ [][NextRelay]_vars

(***************************************************************************)
(* Calls of check_rate_limit and the requests of the HTTP handlers.        *)
(***************************************************************************)
\* The default of the parameter window_minutes.
DefaultWindowMinutes == 1

Clients == {"c2"}

Limits == {1, 2}

\* What one call of check_rate_limit leaves behind: the store, the clock (the
\* call ends no earlier than the entry was made) and the history.
LimiterCall(client, requests_limit, created_at, answer) ==
    /\ request_counts' = answer.store
    /\ now' = created_at
    /\ win' = NoteCall(win, request_counts, client, requests_limit, now)
    /\ last_check' = CheckRecord(win, request_counts, client, requests_limit, now, answer)

\* check_rate_limit called on its own.
CheckRateLimit(client, requests_limit) ==
    /\ \E created_at \in CreationTimes(request_counts, client) :
          LimiterCall(client, requests_limit, created_at,
                      check_rate_limit(request_counts, client, requests_limit,
                                       DefaultWindowMinutes, now, created_at))
    /\ UNCHANGED <<providerVars, apiVars, routerVars, guard, tasks, burst, choice>>

\* A request arrives and its handler runs up to its first await (or to its
\* response, when it raises or returns before that).
Request(e, body) ==
    /\ req.pc = "idle"
    /\ \E created_at \in (IF RateLimited(e) THEN CreationTimes(request_counts, client_id)
                                           ELSE {now}) :
        LET gate == Admission(e, request_counts, now, created_at)
            denied == RateLimited(e) /\ ~gate.is_allowed
            checked == Validate(e, body)
            noted == CheckRecord(win, request_counts, client_id, RATE_LIMIT_REQUESTS, now, gate)
            r == [ReqIdle EXCEPT
                    !.endpoint = e,
                    !.consulted = RateLimited(e),
                    !.admitted = RateLimited(e) /\ gate.is_allowed,
                    !.consumed = RateLimited(e) /\ gate.is_allowed,
                    !.index = IF RateLimited(e) /\ noted.uniform THEN noted.index ELSE 0,
                    !.reset_time = IF RateLimited(e)
                                   THEN isoformat(gate.store[client_id].reset_time)
                                   ELSE isoformat(0),
                    !.validation = IF denied THEN "none"
                                   ELSE IF checked.raised THEN "rejected" ELSE "passed"]
        IN  /\ IF RateLimited(e)
               THEN LimiterCall(client_id, RATE_LIMIT_REQUESTS, created_at, gate)
               ELSE UNCHANGED limiterVars
            /\ IF denied
               THEN /\ req' = Respond(r, RateLimitExceeded(gate.info))
                    /\ UNCHANGED <<chain, relay, events, img>>
               ELSE IF checked.raised
               THEN /\ req' = Respond(r, checked.error)
                    /\ UNCHANGED <<chain, relay, events, img>>
               ELSE IF e.stream
               THEN /\ req' = RespondStream(r)
                    /\ relay' = RelayReady
                    /\ events' = <<>>
                    /\ UNCHANGED <<chain, img>>
               ELSE IF e.route = ImageRoute
               THEN /\ img' = generate_image_asset(body.provider, body.quality, cfg, imgkeys)
                    /\ req' = RespondImage(r, img')
                    /\ UNCHANGED <<chain, relay, events>>
               ELSE /\ chain' = call_ai_with_routing(cfg)
                    /\ req' = RespondChain(r, chain')
                    /\ UNCHANGED <<relay, events, img>>
    /\ UNCHANGED <<cfg, imgkeys, routerVars, guard, tasks, burst, choice>>

\* The provider awaited by call_ai_with_routing answers; the handler returns.
ApiProviderReturns(text) ==
    /\ req.pc = "await"
    /\ chain.pc = "await"
    /\ chain' = call_ai_on_result(chain, text)
    /\ req' = RespondChain(req, chain')
    /\ UNCHANGED <<cfg, relay, events, img, imgkeys, limiterVars, routerVars, guard, tasks, burst, choice>>

\* The provider awaited by call_ai_with_routing raises: the next provider is
\* called, or the handler is left with the last error.
ApiProviderRaises(e) ==
    /\ req.pc = "await"
    /\ chain.pc = "await"
    /\ chain' = call_ai_on_exception(chain, e)
    /\ req' = RespondChain(req, chain')
    /\ UNCHANGED <<cfg, relay, events, img, imgkeys, limiterVars, routerVars, guard, tasks, burst, choice>>

ImageAwaiting == img.pc \in {"await_gemini", "await_grok", "await_fal"}

ImageResponds(answer) ==
    /\ req.pc = "await"
    /\ ImageAwaiting
    /\ img' = image_on_response(img, answer, cfg, imgkeys)
    /\ req' = RespondImage(req, img')
    /\ UNCHANGED <<cfg, chain, relay, events, imgkeys, limiterVars, routerVars, guard, tasks, burst, choice>>

ImageRaises ==
    /\ req.pc = "await"
    /\ ImageAwaiting
    /\ img' = image_on_exception(img, cfg, imgkeys)
    /\ req' = RespondImage(req, img')
    /\ UNCHANGED <<cfg, chain, relay, events, imgkeys, limiterVars, routerVars, guard, tasks, burst, choice>>

\* The response is complete, or the client has closed the stream: the next
\* request can be served.
Recycle ==
    /\ req.pc \in {"done", "streaming"}
    /\ req' = ReqIdle
    /\ chain' = ChainIdle
    /\ relay' = RelayIdle
    /\ events' = <<>>
    /\ img' = ImageIdle
    /\ UNCHANGED <<cfg, imgkeys, limiterVars, routerVars, guard, tasks, burst, choice>>

(***************************************************************************)
(* Specification of the rate limiter: calls of check_rate_limit for two    *)
(* clients and the requests of the rate-limited endpoints, with a clock.   *)
(***************************************************************************)
LimitedEndpoints == {e \in Endpoints : RateLimited(e)}

LimitedBodies ==
    {[text |-> t, extra |-> <<>>, provider |-> "None", quality |-> "None"] :
        t \in {<<"h", "i">>, <<"S", "u", "d", "o">>}}

InitLimiter ==
    /\ cfg = [primary |-> "gemini", fallback |-> FALSE, gemini_key |-> TRUE, grok_key |-> FALSE]
    /\ chain = ChainIdle
    /\ relay = RelayIdle
    /\ events = <<>>
    /\ LimiterIdle
    /\ ApiIdle
    /\ RouterIdle
    /\ GuardIdle
    /\ WindowIdle

NextLimiter ==
    \/ Tick
    \/ \E client \in Clients, requests_limit \in Limits : CheckRateLimit(client, requests_limit)
    \/ \E e \in LimitedEndpoints, body \in LimitedBodies : Request(e, body)
    \/ \E text \in ProviderTexts : ApiProviderReturns(text)
    \/ \E e \in CallErrors : ApiProviderRaises(e)
    \/ Recycle

SpecLimiter == InitLimiter /\ [][NextLimiter]_vars

(***************************************************************************)
(* Specification of the API: every content endpoint, one request at a      *)
(* time, under every configuration; the shared client has used all but one *)
(* of the requests of its window.                                          *)
(***************************************************************************)
InitApi ==
    /\ cfg \in Configs
    /\ imgkeys \in ImageKeys
    /\ chain = ChainIdle
    /\ relay = RelayIdle
    /\ events = <<>>
    /\ req = ReqIdle
    /\ img = ImageIdle
    /\ RouterIdle
    /\ GuardIdle
    /\ WindowIdle
    /\ now = 0
    /\ request_counts =
          (client_id :> [count |-> RATE_LIMIT_REQUESTS - 1, reset_time |-> timedelta(RATE_LIMIT_WINDOW_MINUTES)])
    /\ win = (client_id :> [calls |-> RATE_LIMIT_REQUESTS - 1, limit |-> RATE_LIMIT_REQUESTS])
    /\ last_check =
          [ client |-> client_id, limit |-> RATE_LIMIT_REQUESTS,
            index |-> RATE_LIMIT_REQUESTS - 1, uniform |-> TRUE, first |-> FALSE,
            restart |-> FALSE, is_allowed |-> TRUE,
            info |-> [ limit |-> RATE_LIMIT_REQUESTS, remaining |-> 1,
                       reset_time |-> isoformat(timedelta(RATE_LIMIT_WINDOW_MINUTES)) ] ]

NextApi ==
    \/ \E e \in Endpoints : \E body \in Bodies(e) : Request(e, body)
    \/ \E text \in ProviderTexts : ApiProviderReturns(text)
    \/ \E e \in CallErrors : ApiProviderRaises(e)
    \/ \E answer \in ImageAnswers : ImageResponds(answer)
    \/ ImageRaises
    \/ RelayStart
    \/ RelayProviderYields
    \/ RelayProviderEnds
    \/ RelayProviderRaises
    \/ Recycle

SpecApi == InitApi /\ [][NextApi]_vars

(***************************************************************************)
(* Specification of the router: calls of route_and_execute, up to two in   *)
(* progress together, under every combination of keys.                     *)
(***************************************************************************)
InitRouter ==
    /\ rkeys \in RouterKeys
    /\ rt = [c \in RouterCalls |-> RouteIdle]
    /\ usage_stats = <<>>
    /\ choice = [pc |-> "idle", task_type |-> "", preferences |-> <<>>, model_name |-> ""]
    /\ GuardIdle
    /\ WindowIdle
    /\ cfg = [primary |-> "gemini", fallback |-> FALSE, gemini_key |-> FALSE, grok_key |-> FALSE]
    /\ chain = ChainIdle
    /\ relay = RelayIdle
    /\ events = <<>>
    /\ LimiterIdle
    /\ ApiIdle

NextRouter ==
    \/ \E c \in RouterCalls, prompt \in Prompts, task_type \in TaskTypes \cup {"None"},
          preferences \in Preferences :
            RouteCall(c, prompt, task_type, preferences)
    \/ \E c \in RouterCalls, output \in ProviderTexts : RouteProviderResponds(c, output)
    \/ \E c \in RouterCalls : RouteProviderFails(c)

SpecRouter == InitRouter /\ [][NextRouter]_vars

(***************************************************************************)
(* Specification of the input guard: sanitize_user_input, applied once and *)
(* then to its own output, and validate_and_sanitize, on texts put         *)
(* together from a few pieces.                                             *)
(***************************************************************************)
MaxPieces == 3

\* The texts of at most MaxPieces pieces: letters, blanks, runs of four
\* spaces and of four newlines, a zero-width and a control character, a
\* blocklisted word, and the two halves of a blocklisted phrase.
GuardTexts ==
    LET pieces ==
            { <<>>, <<"a">>, <<" ">>, <<"\t">>, <<" ", " ", " ", " ">>,
              <<"\n", "\n", "\n", "\n">>, <<"U+200B">>, <<"U+0000">>,
              <<"S", "u", "d", "o">>, <<"#", "#", "#">>,
              <<"i", "n", "s", "t", "r", "u", "c", "t", "i", "o", "n">> }
        RECURSIVE Joined(_)
        Joined(n) == IF n = 0 THEN {<<>>}
                     ELSE {t \o piece : t \in Joined(n - 1), piece \in pieces}
    IN  Joined(MaxPieces)

\* The values of max_length: nothing, a few characters, and the default.
GuardLengths == {0, 2, 5, 5000}

\* A call of sanitize_user_input: on the input text, and then on its own
\* output.
GuardSanitize ==
    /\ guard.pc \in {"input", "sanitized"}
    /\ guard' = IF guard.pc = "input"
                THEN [guard EXCEPT !.pc = "sanitized",
                                   !.cleaned = sanitize_user_input(guard.text, guard.max_length)]
                ELSE [guard EXCEPT !.pc = "resanitized",
                                   !.again = sanitize_user_input(guard.cleaned, guard.max_length)]
    /\ UNCHANGED <<providerVars, limiterVars, apiVars, routerVars, tasks, burst, choice>>

\* A call of validate_and_sanitize on the input text.
GuardValidate ==
    /\ guard.pc = "input"
    /\ guard' = [guard EXCEPT !.pc = "validated",
                              !.outcome = validate_and_sanitize(guard.text, "input", guard.max_length)]
    /\ UNCHANGED <<providerVars, limiterVars, apiVars, routerVars, tasks, burst, choice>>

InitGuard ==
    /\ \E text \in GuardTexts, max_length \in GuardLengths :
          guard = [ pc |-> "input", text |-> text, max_length |-> max_length,
                    cleaned |-> <<>>, again |-> <<>>,
                    outcome |-> [raised |-> FALSE, cleaned |-> <<>>, error |-> NoError] ]
    /\ cfg = [primary |-> "gemini", fallback |-> FALSE, gemini_key |-> FALSE, grok_key |-> FALSE]
    /\ chain = ChainIdle
    /\ relay = RelayIdle
    /\ events = <<>>
    /\ LimiterIdle
    /\ ApiIdle
    /\ RouterIdle
    /\ WindowIdle

NextGuard ==
    \/ GuardSanitize
    \/ GuardValidate

SpecGuard == InitGuard /\ [][NextGuard]_vars

(***************************************************************************)
(* Specification of concurrent requests: the handlers of summarize and     *)
(* summarize/stream run as coroutines on one event loop, so a handler runs *)
(* without interruption from its start to its first await, the provider    *)
(* call, and other requests are served while it is suspended there.        *)
(***************************************************************************)
MaxTasks == 2

\* A request for the shared client arrives: its handler calls
\* check_rate_limit and either raises 429, which ends it, or goes on to its
\* provider call, where it is suspended.  admitted counts the requests let
\* through since the window of the client began.
TaskArrives(t) ==
    /\ tasks.pc[t] = "idle"
    /\ \E created_at \in CreationTimes(request_counts, client_id) :
          LET gate == Admission([route |-> "summarize", stream |-> FALSE],
                                request_counts, now, created_at)
              earlier == IF WindowStarts(request_counts, client_id, now)
                         THEN 0 ELSE tasks.admitted
          IN  /\ LimiterCall(client_id, RATE_LIMIT_REQUESTS, created_at, gate)
              /\ tasks' = [ pc |-> [tasks.pc EXCEPT
                                       ![t] = IF gate.is_allowed THEN "await" ELSE "idle"],
                            admitted |-> earlier + (IF gate.is_allowed THEN 1 ELSE 0) ]
    /\ UNCHANGED <<providerVars, apiVars, routerVars, guard, burst, choice>>

\* The provider call of a suspended handler ends and the handler responds.
TaskEnds(t) ==
    /\ tasks.pc[t] = "await"
    /\ tasks' = [tasks EXCEPT !.pc[t] = "idle"]
    /\ UNCHANGED <<providerVars, limiterVars, apiVars, routerVars, guard, burst, choice>>

InitTasks ==
    /\ tasks = [pc |-> [t \in 1..MaxTasks |-> "idle"], admitted |-> 0]
    /\ burst = [limit |-> 0, admitted |-> <<>>]
    /\ cfg = [primary |-> "gemini", fallback |-> FALSE, gemini_key |-> TRUE, grok_key |-> FALSE]
    /\ chain = ChainIdle
    /\ relay = RelayIdle
    /\ events = <<>>
    /\ LimiterIdle
    /\ ApiIdle
    /\ RouterIdle
    /\ GuardIdle

NextTasks ==
    \/ Tick
    \/ \E t \in 1..MaxTasks : TaskArrives(t)
    \/ \E t \in 1..MaxTasks : TaskEnds(t)

SpecTasks == InitTasks /\ [][NextTasks]_vars

(***************************************************************************)
(* Specification of the window edge: one client calling check_rate_limit   *)
(* with one limit, and the number of calls admitted at each time.          *)
(***************************************************************************)
\* A call of check_rate_limit with the limit of the run, noted at the time
\* the call read the clock.
BurstCall(client) ==
    /\ \E created_at \in CreationTimes(request_counts, client) :
          LET answer == check_rate_limit(request_counts, client, burst.limit,
                                         DefaultWindowMinutes, now, created_at)
          IN  /\ LimiterCall(client, burst.limit, created_at, answer)
              /\ burst' = IF answer.is_allowed
                          THEN [burst EXCEPT !.admitted[now + 1] = @ + 1]
                          ELSE burst
    /\ UNCHANGED <<providerVars, apiVars, routerVars, guard, tasks, choice>>

InitBurst ==
    /\ \E requests_limit \in Limits :
          burst = [limit |-> requests_limit, admitted |-> [t \in 1..(MaxTime + 1) |-> 0]]
    /\ tasks = [pc |-> <<>>, admitted |-> 0]
    /\ cfg = [primary |-> "gemini", fallback |-> FALSE, gemini_key |-> FALSE, grok_key |-> FALSE]
    /\ chain = ChainIdle
    /\ relay = RelayIdle
    /\ events = <<>>
    /\ LimiterIdle
    /\ ApiIdle
    /\ RouterIdle
    /\ GuardIdle

NextBurst ==
    \/ Tick
    \/ \E client \in Clients : BurstCall(client)

SpecBurst == InitBurst /\ [][NextBurst]_vars

(***************************************************************************)
(* Specification of the model selection: select_best_model called with     *)
(* every task type and every preference, under every combination of keys.  *)
(***************************************************************************)
\* One call of select_best_model; the router's keys decide availability.
Select(task_type, preferences) ==
    /\ choice' = [pc |-> "returned", task_type |-> task_type, preferences |-> preferences,
                  model_name |-> select_best_model(task_type, preferences, rkeys)]
    /\ UNCHANGED <<providerVars, limiterVars, apiVars, routerVars, guard, tasks, burst>>

InitSelect ==
    /\ rkeys \in RouterKeys
    /\ rt = [c \in RouterCalls |-> RouteIdle]
    /\ usage_stats = <<>>
    /\ choice = [pc |-> "idle", task_type |-> "", preferences |-> <<>>, model_name |-> ""]
    /\ GuardIdle
    /\ WindowIdle
    /\ cfg = [primary |-> "gemini", fallback |-> FALSE, gemini_key |-> FALSE, grok_key |-> FALSE]
    /\ chain = ChainIdle
    /\ relay = RelayIdle
    /\ events = <<>>
    /\ LimiterIdle
    /\ ApiIdle

NextSelect == \E task_type \in TaskTypes, preferences \in Preferences : Select(task_type, preferences)

SpecSelect == InitSelect /\ [][NextSelect]_vars

(***************************************************************************)
(* Claims about the provider-fallback chain (checked under SpecChain).     *)
(***************************************************************************)
\* C5: call_ai_with_routing tries the providers of its list strictly in list
\* order, each at most once; it returns the text of the first provider that
\* succeeds and calls no provider after it; when every provider of the list
\* fails, it raises the error of the last provider tried.
C5_InOrderFirstSuccessLastError ==
    LET n == Len(chain.calls) IN
    /\ n <= Len(chain.providers)
    /\ \A i \in 1..n : chain.calls[i].provider = chain.providers[i]
    /\ \A i, j \in 1..n : i # j => chain.calls[i].provider # chain.calls[j].provider
    /\ \A i \in 1..(n - 1) : chain.calls[i].outcome = "raised"
    /\ chain.pc = "await" => n >= 1 /\ chain.calls[n].outcome = "pending"
    /\ chain.pc = "returned" =>
          /\ n >= 1
          /\ chain.calls[n].outcome = "returned"
          /\ chain.result = chain.calls[n].text
    /\ (chain.pc = "raised" /\ chain.providers # <<>>) =>
          /\ n = Len(chain.providers)
          /\ chain.calls[n].outcome = "raised"
          /\ chain.error = chain.calls[n].error

\* Both providers were tried and failed differently: the second one's error
\* is what the caller gets.
C5_Witness ==
    /\ chain.pc = "raised"
    /\ Len(chain.calls) = 2
    /\ chain.calls[1].error # chain.calls[2].error

(***************************************************************************)
(* Claims about the streaming relay (checked under SpecRelay).             *)
(***************************************************************************)
RelayClosed == relay.pc \in {"returned", "raised"}

KindCount(evs, kind) == Cardinality({i \in 1..Len(evs) : evs[i].kind = kind})

\* The chunks of the chunk events, in the order emitted.
RECURSIVE EventChunks(_)
EventChunks(evs) ==
    IF evs = <<>> THEN <<>>
    ELSE (IF Head(evs).kind = "chunk" THEN <<Head(evs).chunk>> ELSE <<>>)
         \o EventChunks(Tail(evs))

\* Some provider's stream failed after at least one of its chunks was relayed.
FailedMidStream ==
    \E i \in 1..Len(relay.attempts) :
        /\ relay.attempts[i].end = "failed"
        /\ relay.attempts[i].chunks # <<>>

\* C1: provider fallback happens only before the first chunk is emitted: once
\* a chunk of a provider has been relayed no other provider is attempted, so
\* all relayed chunks come from one provider, and a failure of a provider that
\* has yielded a chunk ends the stream.
C1_NoFallbackAfterFirstChunk ==
    /\ \A i \in 1..Len(relay.attempts) :
          relay.attempts[i].chunks # <<>> => i = Len(relay.attempts)
    /\ FailedMidStream => relay.pc = "raised"

\* C6: when a provider's stream fails after one of its chunks was relayed, the
\* event stream ends with exactly one error event and holds no done event.
C6_MidStreamFailureSurfaced ==
    (RelayClosed /\ FailedMidStream) =>
        /\ events # <<>>
        /\ events[Len(events)].kind = "error"
        /\ KindCount(events, "error") = 1
        /\ KindCount(events, "done") = 0

\* C7: the events of sse_generator are zero or more chunk events followed by
\* exactly one terminal event, done or error and never both, with no event
\* after the terminal one.
C7_ChunksThenOneTerminal ==
    /\ \A i \in 1..Len(events) :
          events[i].kind \in {"done", "error"} => i = Len(events)
    /\ \A i \in 1..Len(events) : events[i].kind \in {"chunk", "done", "error"}
    /\ RelayClosed <=>
          (events # <<>> /\ events[Len(events)].kind \in {"done", "error"})
    /\ relay.pc = "returned" => events[Len(events)].kind = "done"
    /\ relay.pc = "raised" => events[Len(events)].kind = "error"

\* A stream that relayed chunks and then ended with an error event.
C7_Witness ==
    /\ relay.pc = "raised"
    /\ Len(events) >= 3
    /\ events[1].kind = "chunk"
    /\ events[Len(events)].kind = "error"

\* C8: when the provider that serves the request yields c1..cn and completes,
\* the relay emits exactly the chunk events c1..cn in that order, then exactly
\* one done event, and no error event.
C8_ChunksOfServingProviderOnly ==
    relay.pc = "returned" =>
        /\ EventChunks(events) = relay.attempts[Len(relay.attempts)].chunks
        /\ KindCount(events, "done") = 1
        /\ KindCount(events, "error") = 0
        /\ events[Len(events)].kind = "done"

(***************************************************************************)
(* Claims about the rate limiter (checked under SpecLimiter).              *)
(***************************************************************************)
\* C3: for every client and every limit N >= 1, counting the calls of
\* check_rate_limit from the one that starts a window (no entry yet, or the
\* reset time has come), the call is allowed exactly when it is among the
\* first N of its window, so the (N+1)-th is rejected; the call that starts a
\* window is allowed and leaves the count at 1.  On the rate-limited
\* endpoints (N = 60) the request that is the 61st call of its window, and
\* only such a request, gets status 429, and the 429 carries the reset time
\* of the window.
C3_FirstNAllowedThenRejected ==
    /\ (last_check.client # "" /\ last_check.uniform) =>
          /\ last_check.is_allowed <=> (last_check.index <= last_check.limit)
          /\ last_check.first =>
                /\ last_check.is_allowed
                /\ request_counts[last_check.client].count = 1
                /\ last_check.info.remaining = last_check.limit - 1
    /\ (req.consulted /\ req.index > 0) =>
          /\ (req.status = 429) <=> (req.index > RATE_LIMIT_REQUESTS)
          /\ (req.status = 429) =>
                /\ req.error.status_code = 429
                /\ req.error.reset_time = req.reset_time
                /\ ~req.admitted

\* The shared client has had its 61st request of a window rejected with 429,
\* and the other client has just been allowed again by the call that found its
\* window expired.
C3_Witness ==
    /\ req.status = 429
    /\ req.index = RATE_LIMIT_REQUESTS + 1
    /\ last_check.client = "c2"
    /\ last_check.restart
    /\ last_check.is_allowed

\* C10: the input guard runs before the rate limiter: a request whose input
\* validate_and_sanitize rejects has not consulted check_rate_limit and has
\* not used up one of the client's requests.
C10_GuardBeforeLimiter ==
    req.validation = "rejected" => ~req.consulted /\ ~req.consumed

(***************************************************************************)
(* Claims about the HTTP handlers (checked under SpecApi).                 *)
(***************************************************************************)
\* A provider client has been invoked for the request in service: a call of
\* call_gemini_api / call_grok_api, a provider stream, or an image POST.
ProviderInvoked ==
    \/ chain.calls # <<>>
    \/ relay.attempts # <<>>
    \/ img.posts # <<>>

\* C4: on every content endpoint no provider client is invoked for a request
\* unless check_rate_limit has admitted that request first.
C4_ProviderOnlyAfterAdmission == ProviderInvoked => req.admitted

\* C9: on every endpoint that validates a field, a request whose input is
\* rejected by validate_and_sanitize gets an HTTP 400 response, and no
\* provider client is invoked for it.
C9_ValidationFailureIs400 ==
    req.validation = "rejected" => req.status = 400 /\ ~ProviderInvoked

(***************************************************************************)
(* Claims about the model router (checked under SpecRouter).               *)
(***************************************************************************)
\* C2: when route_and_execute has selected a model other than the default,
\* that model's provider call has failed and the default model's call has
\* succeeded, the result carries the default model's output with
\* fallback = True, and the call has incremented the usage statistics once,
\* for (default model, task type).
C2_FallbackAttributedToDefault ==
    \A c \in RouterCalls :
        (rt[c].pc = "returned" /\ rt[c].result.fallback) =>
            /\ rt[c].posts = <<rt[c].model_name, DefaultModel>>
            /\ rt[c].result.model_used = DefaultModel
            /\ rt[c].result.output \in ProviderTexts
            /\ rt[c].tracked = << <<DefaultModel, rt[c].task_type>> >>
            /\ <<DefaultModel, rt[c].task_type>> \in DOMAIN usage_stats

\* C11: one call of route_and_execute makes at most two provider executions,
\* the selected model and then the default model: a second execution happens
\* only when the selected model is not the default, a failure of the default
\* model as selected model is propagated with no second attempt, and a failure
\* of the fallback attempt is propagated with no further model tried.
C11_AtMostOneFallbackHop ==
    \A c \in RouterCalls :
        rt[c].pc # "idle" =>
            /\ Len(rt[c].attempts) \in {1, 2}
            /\ rt[c].attempts[1] = rt[c].model_name
            /\ Len(rt[c].attempts) = 2 =>
                  /\ rt[c].attempts[2] = DefaultModel
                  /\ rt[c].model_name # DefaultModel
            /\ \A i \in 1..Len(rt[c].posts) : \E j \in 1..Len(rt[c].attempts) :
                  rt[c].posts[i] = rt[c].attempts[j]
            /\ Len(rt[c].posts) <= Len(rt[c].attempts)
            /\ (rt[c].pc = "raised" /\ rt[c].model_name = DefaultModel) =>
                  rt[c].attempts = <<DefaultModel>>
            /\ (rt[c].pc = "raised" /\ rt[c].model_name # DefaultModel) =>
                  /\ rt[c].attempts = <<rt[c].model_name, DefaultModel>>
                  /\ rt[c].error.provider = "gemini"

\* A call has failed after both of its provider requests, the selected
\* model's and the default model's, failed.
C11_Witness ==
    \E c \in RouterCalls :
        /\ rt[c].pc = "raised"
        /\ rt[c].posts = <<rt[c].model_name, DefaultModel>>

\* C12: when the model selected by route_and_execute succeeds on the first
\* attempt, the step that returns increments the usage count of exactly the
\* key (selected model, task type) by one and leaves every other entry as it
\* was, and the result has fallback = False, model_used = the selected model
\* and task_type = the task type given, or classified from the prompt when
\* none was given.
C12_PrimarySuccessTracked ==
    [][ \A c \in RouterCalls :
          (rt[c].pc # "returned" /\ rt'[c].pc = "returned" /\ ~rt'[c].result.fallback) =>
              LET key == <<rt'[c].model_name, rt'[c].task_type>> IN
              /\ DOMAIN usage_stats' = DOMAIN usage_stats \cup {key}
              /\ usage_stats'[key] =
                    (IF key \in DOMAIN usage_stats THEN usage_stats[key] ELSE 0) + 1
              /\ \A k \in DOMAIN usage_stats \ {key} : usage_stats'[k] = usage_stats[k]
              /\ rt'[c].attempts = <<rt'[c].model_name>>
              /\ rt'[c].result.success
              /\ rt'[c].result.model_used = rt'[c].model_name
              /\ rt'[c].result.task_type =
                    (IF rt'[c].given = "None"
                     THEN analyze_task_type(rt'[c].classified)
                     ELSE rt'[c].given)
      ]_vars

\* Both calls have succeeded on the first attempt with a provider request to
\* the same model for the same task type, one of them classified from its
\* prompt, and the count of their key is 2.
C12_Witness ==
    /\ \A c \in RouterCalls :
          /\ rt[c].pc = "returned"
          /\ ~rt[c].result.fallback
          /\ rt[c].posts = <<rt[c].model_name>>
    /\ rt[1].model_name = rt[2].model_name
    /\ rt[1].task_type = rt[2].task_type
    /\ rt[1].given = "None"
    /\ <<rt[1].model_name, rt[1].task_type>> \in DOMAIN usage_stats
    /\ usage_stats[<<rt[1].model_name, rt[1].task_type>>] = 2

\* The task type has candidate models and none of them has a provider with
\* credentials.
NoCandidateHasCredentials(task_type) ==
    /\ \E m \in DOMAIN MODEL_CONFIGS : task_type \in MODEL_CONFIGS[m].strengths
    /\ \A m \in DOMAIN MODEL_CONFIGS :
          task_type \in MODEL_CONFIGS[m].strengths => ~ModelAvailable(m, rkeys)

\* C13: for a task type none of whose candidate models has a provider with
\* credentials, the model selected is the default model whether or not its own
\* key is present, and route_and_execute attempts it; when the default model's
\* key is missing too, the call raises the "key not configured" error with no
\* provider request made and no fallback retry, and when it is present the
\* only provider request is to the default model.
C13_NoCredentialsSelectsDefault ==
    \A c \in RouterCalls :
        (rt[c].pc # "idle" /\ NoCandidateHasCredentials(rt[c].task_type)) =>
            /\ rt[c].model_name = DefaultModel
            /\ rt[c].attempts = <<DefaultModel>>
            /\ ~rkeys.gemini_key =>
                  /\ rt[c].pc = "raised"
                  /\ rt[c].error = KeyNotConfigured("gemini")
                  /\ rt[c].posts = <<>>
                  /\ rt[c].tracked = <<>>
            /\ rkeys.gemini_key => rt[c].posts = <<DefaultModel>>

\* A call for code generation, classified from its prompt, with no key
\* configured at all: it has raised without a provider request.
C13_Witness ==
    \E c \in RouterCalls :
        /\ rt[c].pc = "raised"
        /\ rt[c].given = "None"
        /\ rt[c].task_type = "code_generation"
        /\ NoCandidateHasCredentials("code_generation")
        /\ ~rkeys.gemini_key
        /\ rt[c].posts = <<>>

\* The provider has credentials under the configuration.
HasCredentials(p) == IF p = "grok" THEN cfg.grok_key ELSE cfg.gemini_key

\* C14: once call_ai_with_routing has been called with gemini or grok as the
\* configured primary, the provider list it built,
\* and the one stream_ai_with_routing builds under the same configuration,
\* holds a provider other than the configured primary only if fallback is
\* enabled and that provider has credentials, starts with the primary whenever
\* the primary has credentials, and no provider other than the primary has
\* been called while fallback is disabled.
C14_PrimaryFirstFallbackOnlyIfEnabled ==
    (chain.pc # "idle" /\ cfg.primary \in {"gemini", "grok"}) =>
        /\ chain.providers = ProviderList(cfg) \/ chain.providers = <<>>
        /\ \A list \in {ProviderList(cfg), StreamProviderList(cfg)} :
              /\ \A i \in 1..Len(list) :
                    list[i] # cfg.primary => (cfg.fallback /\ HasCredentials(list[i]))
              /\ (list # <<>> /\ HasCredentials(cfg.primary))
                    => list[1] = cfg.primary
        /\ \A i \in 1..Len(chain.calls) :
              ~cfg.fallback => chain.calls[i].provider = cfg.primary

\* C15: when neither text provider has credentials, a request to a text
\* endpoint (plain, gamedev or a streaming variant) whose input passed
\* validation is answered with HTTP status 503, and no provider client is
\* invoked for it.
C15_NoCredentialsIs503 ==
    ( /\ ~cfg.gemini_key
      /\ ~cfg.grok_key
      /\ req.pc # "idle"
      /\ req.endpoint.route \in TextRoutes \cup GameDevRoutes
      /\ req.validation = "passed" )
        => (req.status = 503 /\ ~ProviderInvoked)

\* The i-th provider call of the chain ended in the timeout error.
TimedOut(i) ==
    /\ chain.calls[i].outcome = "raised"
    /\ chain.calls[i].error = HTTPException(504, "AI service timeout")

\* C16: a provider call that timed out is followed by a call of the next
\* provider of the list when there is one, and when the last provider called
\* timed out, call_ai_with_routing raises the timeout error (status 504) and
\* the text endpoint that called it answers the request with HTTP status 504.
C16_TimeoutFallsBackThen504 ==
    ( /\ req.pc # "idle"
      /\ ~req.endpoint.stream
      /\ req.endpoint.route \in TextRoutes \cup GameDevRoutes )
        => /\ \A i \in 1..Len(chain.calls) :
                 (TimedOut(i) /\ i < Len(chain.providers)) =>
                     /\ Len(chain.calls) > i
                     /\ chain.calls[i + 1].provider = chain.providers[i + 1]
           /\ (chain.calls # <<>> /\ Len(chain.calls) = Len(chain.providers)
                 /\ TimedOut(Len(chain.calls))) =>
                     /\ chain.pc = "raised"
                     /\ chain.error.status_code = 504
                     /\ req.pc = "done"
                     /\ req.status = 504

(***************************************************************************)
(* Claims about the input guard (checked under SpecGuard).                 *)
(***************************************************************************)
\* C17: for every input text that contains, case-insensitively, a match of a
\* pattern of the blocklist, validate_and_sanitize raises the HTTP 400 error
\* and returns no value, whatever max_length is and wherever the match lies.
C17_BlocklistMatchRaises ==
    (guard.pc = "validated" /\ SuspiciousSearch(guard.text))
        => (guard.outcome.raised /\ guard.outcome.error.status_code = 400)

\* C18: for every input text and max_length, the output of
\* sanitize_user_input has at most max_length characters, no non-printable
\* character other than newline and tab, no zero-width character, no run of
\* more than three newlines or three spaces, and no leading or trailing
\* whitespace.
C18_SanitizedOutputIsClean ==
    guard.pc \in {"sanitized", "resanitized"} =>
        LET out == guard.cleaned IN
        /\ Len(out) <= guard.max_length
        /\ \A i \in 1..Len(out) : out[i] \in NonPrintable => out[i] \in {"\n", "\t"}
        /\ \A i \in 1..Len(out) : out[i] \notin ZeroWidth
        /\ \A i \in 1..(Len(out) - 3) : \A ch \in {"\n", " "} :
              ~(out[i] = ch /\ out[i + 1] = ch /\ out[i + 2] = ch /\ out[i + 3] = ch)
        /\ out # <<>> => (out[1] \notin Whitespace /\ out[Len(out)] \notin Whitespace)

\* A text with a run of four spaces between two letters has been sanitized to
\* the letters with three spaces between them.
C18_Witness ==
    /\ guard.pc = "sanitized"
    /\ guard.text = <<"a", " ", " ", " ", " ", "a">>
    /\ guard.cleaned = <<"a", " ", " ", " ", "a">>

\* C19: sanitize_user_input is idempotent: applied with the same max_length to
\* its own output, it returns that output unchanged.
C19_SanitizeIdempotent ==
    guard.pc = "resanitized" => guard.again = guard.cleaned

\* A text longer than max_length that begins with whitespace has been
\* sanitized to a shorter, non-empty text, and sanitized again.
C19_Witness ==
    /\ guard.pc = "resanitized"
    /\ Len(guard.text) > guard.max_length
    /\ isspace(guard.text[1])
    /\ guard.cleaned # <<>>
    /\ Len(guard.cleaned) < guard.max_length
    /\ guard.again = guard.cleaned

(***************************************************************************)
(* Claims about the classification of prompts (checked under SpecRouter).  *)
(***************************************************************************)
\* The fixed priority order of the categories.
PriorityOrder ==
    << "code_generation", "image_generation", "summarization", "creative_writing",
       "technical_writing", "analysis" >>

\* A keyword of the k-th category of the priority order occurs as a substring
\* of the lower-cased prompt.
KeywordOccurs(prompt, k) ==
    \E n \in 1..Len(TaskKeywords) :
        /\ TaskKeywords[n].task_type = PriorityOrder[k]
        /\ \E word \in TaskKeywords[n].words :
              \E i \in 1..(Len(prompt) - Len(word) + 1) :
                  \A j \in 1..Len(word) : lower(prompt)[i + j - 1] = word[j]

\* C20: analyze_task_type returns a task type for every prompt: the first
\* category, in the order code_generation, image_generation, summarization,
\* creative_writing, technical_writing, analysis, one of whose keywords occurs
\* in the lower-cased prompt, and chat when no keyword of any category occurs.
C20_FirstMatchInPriorityOrder ==
    \A c \in RouterCalls :
        (rt[c].pc # "idle" /\ rt[c].given = "None") =>
            /\ rt[c].task_type \in TaskTypes
            /\ \A k \in 1..Len(PriorityOrder) :
                  (KeywordOccurs(rt[c].classified, k)
                     /\ \A j \in 1..(k - 1) : ~KeywordOccurs(rt[c].classified, j))
                        => rt[c].task_type = PriorityOrder[k]
            /\ (\A k \in 1..Len(PriorityOrder) : ~KeywordOccurs(rt[c].classified, k))
                  => rt[c].task_type = "chat"

\* The prompt "Write a function to sort a list", which holds "function" and
\* "write a", has been classified as code generation, and the prompt of the
\* other call, which holds no keyword, as chat.
C20_Witness ==
    /\ rt[1].given = "None"
    /\ KeywordOccurs(rt[1].classified, 1)
    /\ KeywordOccurs(rt[1].classified, 4)
    /\ rt[1].task_type = "code_generation"
    /\ rt[2].given = "None"
    /\ rt[2].pc # "idle"
    /\ \A k \in 1..Len(PriorityOrder) : ~KeywordOccurs(rt[2].classified, k)
    /\ rt[2].task_type = "chat"

(***************************************************************************)
(* Claims about the steps of check_rate_limit (checked under SpecLimiter). *)
(***************************************************************************)
\* The step is a call of check_rate_limit that left a trace: its record or
\* the store differs from before.
LimiterStep == last_check' # last_check \/ request_counts' # request_counts

\* The client of the call has an entry whose reset time has not come.
BeforeReset(client) ==
    client \in DOMAIN request_counts /\ now < request_counts[client].reset_time

\* C21: a call of check_rate_limit that is rejected before the reset time of
\* its client leaves the store as it was (that client's count and reset time
\* and every other client's entry) and reports remaining = 0 with the current
\* reset time; a call that is allowed leaves every other client's entry as it
\* was, adds exactly one to its client's count (the count being 0 when the
\* window starts with the call) and reports remaining = limit - count for the
\* count after the increment, which is not negative.
C21_RejectedCallChangesNothing ==
    [][ LimiterStep =>
          LET client == last_check'.client
              info == last_check'.info
          IN  /\ DOMAIN request_counts' = DOMAIN request_counts \cup {client}
              /\ \A other \in DOMAIN request_counts \ {client} :
                    request_counts'[other] = request_counts[other]
              /\ ~last_check'.is_allowed =>
                    /\ info.remaining = 0
                    /\ info.reset_time = isoformat(request_counts'[client].reset_time)
                    /\ BeforeReset(client) => request_counts' = request_counts
              /\ last_check'.is_allowed =>
                    /\ request_counts'[client].count =
                          (IF BeforeReset(client) THEN request_counts[client].count ELSE 0) + 1
                    /\ BeforeReset(client) =>
                          request_counts'[client].reset_time = request_counts[client].reset_time
                    /\ info.remaining = last_check'.limit - request_counts'[client].count
                    /\ info.remaining >= 0
                    /\ info.reset_time = isoformat(request_counts'[client].reset_time)
      ]_vars

\* The client called directly has been rejected with limit 2 before its reset
\* time, with the count at 2, while the shared client has an entry of its own.
C21_Witness ==
    /\ last_check.client = "c2"
    /\ last_check.limit = 2
    /\ ~last_check.is_allowed
    /\ ~last_check.first
    /\ last_check.info.remaining = 0
    /\ request_counts["c2"].count = 2
    /\ client_id \in DOMAIN request_counts

\* C22: after any sequence of calls of check_rate_limit and advances of the
\* clock, the count of every client is not negative, and is not greater than
\* L while the calls of the client's window all used the limit L; the reset
\* time of an entry changes only in a call made at or after that reset time,
\* and is then the time of the call plus the window duration.
C22_CountWithinLimitResetOnlyWhenDue ==
    /\ [](\A client \in DOMAIN request_counts :
             /\ request_counts[client].count >= 0
             /\ (client \in DOMAIN win /\ win[client].limit # 0) =>
                   request_counts[client].count <= win[client].limit)
    /\ [][ \A client \in DOMAIN request_counts :
             /\ client \in DOMAIN request_counts'
             /\ request_counts'[client].reset_time # request_counts[client].reset_time =>
                   /\ LimiterStep
                   /\ last_check'.client = client
                   /\ now >= request_counts[client].reset_time
                   /\ request_counts'[client].reset_time =
                         now + RATE_LIMIT_WINDOW_MINUTES * TicksPerMinute
         ]_vars

\* The client called directly has used up its limit of 2 in a window that a
\* call made after the previous reset time has started.
C22_Witness ==
    /\ "c2" \in DOMAIN request_counts
    /\ request_counts["c2"].count = 2
    /\ win["c2"].limit = 2
    /\ win["c2"].calls >= 2
    /\ request_counts["c2"].reset_time = MaxTime + RATE_LIMIT_WINDOW_MINUTES * TicksPerMinute

(***************************************************************************)
(* Claims about concurrent requests (checked under SpecTasks).             *)
(***************************************************************************)
\* C23: with the handlers interleaving only at their provider calls, the
\* number of requests of the shared client that check_rate_limit has let
\* through since the window of the client began never exceeds the limit, and
\* it is the count the store holds.
C23_AdmittedWithinLimit ==
    /\ tasks.admitted <= RATE_LIMIT_REQUESTS
    /\ client_id \in DOMAIN request_counts =>
          request_counts[client_id].count = tasks.admitted

\* Both requests are suspended in their provider calls at the same time, the
\* window that a call after the first reset time started is full, and the
\* second of them was the last request let through.
C23_Witness ==
    /\ \A t \in 1..MaxTasks : tasks.pc[t] = "await"
    /\ tasks.admitted = RATE_LIMIT_REQUESTS
    /\ last_check.is_allowed
    /\ last_check.info.remaining = 0
    /\ now > 0

(***************************************************************************)
(* Claims about the window edge (checked under SpecBurst).                 *)
(***************************************************************************)
\* The number of calls admitted at the times first..last.
RECURSIVE AdmittedBetween(_, _)
AdmittedBetween(first, last) ==
    IF first > last \/ first > MaxTime THEN 0
    ELSE burst.admitted[first + 1] + AdmittedBetween(first + 1, last)

\* C25: for one client, one limit N and the window W, the calls that
\* check_rate_limit admits at the times of any interval of length at most W
\* are at most 2 * N.
C25_AtMostTwiceTheLimitPerWindow ==
    \A first \in 0..MaxTime :
        AdmittedBetween(first, first + DefaultWindowMinutes * TicksPerMinute)
            <= 2 * burst.limit

\* With the limit 2, two calls were admitted in the window that began at time
\* 0, the second of them just before the reset time, and two more at the
\* reset time: four calls within one window length.
C25_Witness ==
    /\ burst.limit = 2
    /\ burst.admitted[1] = 1
    /\ burst.admitted[DefaultWindowMinutes * TicksPerMinute] = 1
    /\ burst.admitted[DefaultWindowMinutes * TicksPerMinute + 1] = 2
    /\ AdmittedBetween(0, DefaultWindowMinutes * TicksPerMinute) = 2 * burst.limit

(***************************************************************************)
(* Claims about concurrent calls of the router (checked under SpecRouter). *)
(***************************************************************************)
\* The calls that have succeeded on their first attempt with the model and
\* the task type.
FirstAttemptSuccesses(model_name, task_type) ==
    { c \in RouterCalls :
        /\ rt[c].pc = "returned"
        /\ ~rt[c].result.fallback
        /\ rt[c].model_name = model_name
        /\ rt[c].task_type = task_type }

\* C24: whatever the interleaving of the calls of route_and_execute, which
\* are suspended only in their provider calls, the usage count of each key
\* (model, task type) is the number of calls that have succeeded on their
\* first attempt with that model and task type; a key that no such call has
\* is not in the map.
C24_NoUsageIncrementLost ==
    \A model_name \in DOMAIN MODEL_CONFIGS, task_type \in TaskTypes :
        LET successes == Cardinality(FirstAttemptSuccesses(model_name, task_type)) IN
        IF <<model_name, task_type>> \in DOMAIN usage_stats
        THEN usage_stats[<<model_name, task_type>>] = successes
        ELSE successes = 0

\* Both calls have succeeded on their first attempt with the same model and
\* task type, the provider of the first having answered while the second was
\* suspended in its provider call, and the count of the key is 2.
C24_Witness ==
    /\ rt[1].overlapped
    /\ rt[1].posts = <<rt[1].model_name>>
    /\ rt[2].posts = <<rt[2].model_name>>
    /\ FirstAttemptSuccesses(rt[1].model_name, rt[1].task_type) = RouterCalls
    /\ usage_stats[<<rt[1].model_name, rt[1].task_type>>] = 2

\* C30: the usage map starts empty and only grows: every entry is a positive
\* integer, no step removes or decreases an entry, and a call of
\* route_and_execute that ends by raising has given nothing to _track_usage
\* and its raising step leaves the whole map unchanged.
C30_UsageOnlyGrows ==
    /\ usage_stats = <<>>
    /\ [](\A key \in DOMAIN usage_stats : usage_stats[key] \in Nat \ {0})
    /\ [][ /\ DOMAIN usage_stats \subseteq DOMAIN usage_stats'
           /\ \A key \in DOMAIN usage_stats : usage_stats'[key] >= usage_stats[key]
           /\ \A c \in RouterCalls :
                 (rt[c].pc # "raised" /\ rt'[c].pc = "raised") =>
                     /\ usage_stats' = usage_stats
                     /\ rt'[c].tracked = <<>>
       ]_vars

\* One call has succeeded on its first attempt and been counted, and the
\* other has raised after the failure of its provider request and of the
\* fallback request, leaving the count of the first at 1.
C30_Witness ==
    /\ rt[1].pc = "returned"
    /\ rt[1].tracked # <<>>
    /\ rt[2].pc = "raised"
    /\ Len(rt[2].posts) = 2
    /\ rt[2].task_type = rt[1].task_type
    /\ DOMAIN usage_stats = {<<rt[1].model_name, rt[1].task_type>>}
    /\ usage_stats[<<rt[1].model_name, rt[1].task_type>>] = 1

(***************************************************************************)
(* Claims about the model selection (checked under SpecSelect).            *)
(***************************************************************************)
\* The models suited to the task type whose provider has a key; pollinations
\* and picsum need none.
CredentialedCandidates(task_type) ==
    {m \in DOMAIN MODEL_CONFIGS :
        task_type \in MODEL_CONFIGS[m].strengths /\ ModelAvailable(m, rkeys)}

\* No model of the set scores higher than the model does.
BestQualityAmong(model_name, models) ==
    \A m \in models : MODEL_CONFIGS[model_name].quality >= MODEL_CONFIGS[m].quality

\* very_fast is faster than fast, fast is faster than medium.
SpeedTier(m) ==
    CASE MODEL_CONFIGS[m].speed = "very_fast" -> 3
      [] MODEL_CONFIGS[m].speed = "fast" -> 2
      [] OTHER -> 1

NoPreferences == [speed_priority |-> FALSE, quality_priority |-> FALSE]

\* C26: select_best_model called without preferences returns a model of the
\* highest quality among the candidates for the task type whose provider has
\* credentials (the keyless image providers count as credentialed), and it
\* returns the default model only when that set is empty or the default model
\* is itself that maximum.
C26_NoPreferencesBestCredentialedQuality ==
    (choice.pc = "returned" /\ choice.preferences = NoPreferences) =>
        LET candidates == CredentialedCandidates(choice.task_type) IN
            /\ candidates # {} =>
                  /\ choice.model_name \in candidates
                  /\ BestQualityAmong(choice.model_name, candidates)
            /\ candidates = {} => choice.model_name = DefaultModel
            /\ choice.model_name = DefaultModel =>
                  \/ candidates = {}
                  \/ /\ DefaultModel \in candidates
                     /\ BestQualityAmong(DefaultModel, candidates)

\* A call for code generation without preferences while groq has no key and
\* mistral has one: the model returned is not the best of the catalog for the
\* task, it is the best one that has credentials.
C26_Witness ==
    /\ choice.pc = "returned"
    /\ choice.preferences = NoPreferences
    /\ choice.task_type = "code_generation"
    /\ ~rkeys.groq_key
    /\ rkeys.mistral_key
    /\ choice.model_name = "mistral-large"

\* C27: with speed_priority set, whether or not quality_priority is set too,
\* the model returned is of a speed tier at least as fast as every other
\* candidate with credentials, and of the highest quality among the
\* credentialed candidates of that tier; it is the model returned for
\* speed_priority alone.
C27_SpeedPriorityFastestTierThenQuality ==
    (choice.pc = "returned" /\ choice.preferences.speed_priority) =>
        LET candidates == CredentialedCandidates(choice.task_type)
            same_tier == {m \in candidates : SpeedTier(m) = SpeedTier(choice.model_name)}
        IN  /\ candidates # {} =>
                  /\ choice.model_name \in candidates
                  /\ \A m \in candidates : SpeedTier(choice.model_name) >= SpeedTier(m)
                  /\ BestQualityAmong(choice.model_name, same_tier)
            /\ choice.model_name =
                  select_best_model(choice.task_type,
                                    [speed_priority |-> TRUE, quality_priority |-> FALSE], rkeys)

\* A call for an image with both preferences set: the very fast picsum-photos
\* is returned although pollinations-flux scores higher.
C27_Witness ==
    /\ choice.pc = "returned"
    /\ choice.preferences = [speed_priority |-> TRUE, quality_priority |-> TRUE]
    /\ choice.task_type = "image_generation"
    /\ choice.model_name = "picsum-photos"
    /\ MODEL_CONFIGS["pollinations-flux"].quality > MODEL_CONFIGS["picsum-photos"].quality

\* C28: preferences only re-order the candidates.  With quality_priority
\* alone the model returned is the one returned without preferences, and
\* under any preferences the default model is returned for want of a usable
\* candidate exactly when no candidate has credentials; otherwise a
\* credentialed candidate is returned.
C28_PreferencesOnlyReorder ==
    choice.pc = "returned" =>
        LET candidates == CredentialedCandidates(choice.task_type) IN
            /\ (~choice.preferences.speed_priority /\ choice.preferences.quality_priority) =>
                  choice.model_name = select_best_model(choice.task_type, NoPreferences, rkeys)
            /\ candidates = {} => choice.model_name = DefaultModel
            /\ candidates # {} => choice.model_name \in candidates

\* A call for technical writing with quality_priority alone while groq has no
\* key and mistral has one: the second candidate is returned, not the default.
C28_Witness ==
    /\ choice.pc = "returned"
    /\ choice.preferences = [speed_priority |-> FALSE, quality_priority |-> TRUE]
    /\ choice.task_type = "technical_writing"
    /\ ~rkeys.groq_key
    /\ rkeys.mistral_key
    /\ choice.model_name = "mistral-large"
    /\ choice.model_name # DefaultModel

(***************************************************************************)
(* Claims about the image service (checked under SpecApi).                 *)
(***************************************************************************)
\* C29: a run of generate_image_asset whose selected provider is gemini, grok
\* or pollinations, as requested or as chosen from the quality tier, and as
\* the fallbacks from Grok to Gemini and from Gemini to Pollinations rewrite
\* it, never raises; when it returns, the provider it names is the one that
\* produced the image: the provider of the last request sent, or
\* pollinations, which needs no request.
C29_ImageChainNeverRaises ==
    /\ img.pc = "raised" => img.selected \notin {"gemini", "grok", "pollinations"}
    /\ img.pc = "returned" =>
          \/ img.provider = "pollinations"
          \/ /\ img.posts # <<>>
             /\ img.provider = img.posts[Len(img.posts)]

====
